---- MODULE Spec2Model ----
(***************************************************************************)
(* Model of package lastcache (src/lastcache.go): a stale-if-error /        *)
(* stale-while-revalidate in-memory cache built on two sync.Map stores      *)
(* (mapStorage, timeStorage) and a buffered channel used as a semaphore.    *)
(*                                                                          *)
(* Every goroutine is a thread with a frame (its position and its locals).  *)
(* One step is one access to shared memory (one sync.Map operation, one     *)
(* channel operation, one read of the clock) together with the local        *)
(* computation that follows it up to the next access.  now() evaluated as   *)
(* the argument of a Store is read in the step of that Store.               *)
(***************************************************************************)
EXTENDS Integers, Sequences, FiniteSets, TLC

\* ------------------------------------------------------------------ bounds
NumCallers == 2
MaxWorkers == 2
MaxClock == 2
MaxOps == 3
\* the sequential scope: one client, more calls, a longer clock
MaxClockSeq == 3
MaxOpsSeq == 3
\* the scope of the liveness check: one client, a shorter clock
MaxClockLive == 2
MaxOpsLive == 3
\* one client and the goroutines it starts, with ExtendTTL > 0 and a clock that
\* outlasts an extension
MaxClockExt == 4
MaxOpsExt == 3
\* one client and every kind of Config
MaxClockNew == 3
MaxOpsNew == 2
\* one client and two keys
MaxClockKeys == 2
MaxOpsKeys == 3

\* ------------------------------------------------------- program constants
\* const defaultTTL = 1 * time.Minute; the model's time unit is 30 seconds
defaultTTL == 2
defaultSemaphore == 1

\* ------------------------------------------------------------ input domains
Keys == {"k1", "k2"}
Values == {"v1", "v2"}
Errors == {"e1"}
Nil == "nil"
NoKey == "-"
NoChan == 0

\* Config values given to New
ConfigInputs ==
    [GlobalTTL : {1}, ExtendTTL : {0, 1}, AsyncSemaphore : {0, 2}]

\* Config values of every kind: negative, zero and positive fields
NewInputs ==
    [GlobalTTL : {-1, 0, 1, 3}, ExtendTTL : {0, 1}, AsyncSemaphore : {-1, 0, 1, 2}]

Callers == 1..NumCallers
Workers == {100 + i : i \in 1..MaxWorkers}
Threads == Callers \cup Workers

VARIABLES
    config,       \* Cache.config after New
    semaphore,    \* Cache.semaphore: [cap |-> capacity, len |-> buffered elements]
    mapStorage,   \* Cache.mapStorage: function from the stored keys to values
    timeStorage,  \* Cache.timeStorage: function from the stored keys to expiry times
    clock,        \* the value now() returns
    frame,        \* per thread: position and locals of the running call
    errChan,      \* per worker: the buffered channel make(chan error, 1)
    ghost,        \* per thread: history of the running call (observation only)
    hist,         \* per key: the last completed c.Set, if nothing wrote the key since
    nops,         \* number of public calls started
    scope         \* what the environment does: its clients, calls and clock

vars == <<config, semaphore, mapStorage, timeStorage, clock, frame, errChan,
          ghost, hist, nops, scope>>

\* ------------------------------------------------------------------ records
\* type Entry struct { Value any; Stale bool; Err error }
Entry == [Value |-> Nil, Stale |-> FALSE, Err |-> Nil]

\* locals of a call: key, the loaded expiry d, newValue, err, entry, ch
IdleFrame == [pc |-> "idle", op |-> "none", key |-> NoKey, d |-> 0,
              newValue |-> Nil, err |-> Nil, entry |-> Entry, ch |-> NoChan,
              ttl |-> 0, ok |-> FALSE]

NoHist == [st |-> "none", by |-> 0, op |-> "none", v |-> Nil, t |-> 0, n |-> 0]

\* what is recorded about a call: the number of callback invocations, what the
\* callback returned, whether the call wrote a store, whether another thread
\* wrote the call's key meanwhile, the number of sends to the channel, which
\* operation hist held for the key when the call started and how many failed
\* calls had followed it, what now() returned to the expiry test of a client's
\* call and the value the key had at that test, and for a goroutine its rank
\* among the goroutines that passed c.semaphore <- true
IdleGhost == [calls |-> 0, cbErr |-> Nil, cbValue |-> Nil, cbStale |-> FALSE,
              now |-> 0, wrote |-> FALSE,
              dirty |-> FALSE, sent |-> 0, pre |-> "none", rank |-> 0,
              preN |-> 0, seen |-> Nil]

\* --------------------------------------------------------------- sync.Map
Load(m, k) == IF k \in DOMAIN m THEN m[k] ELSE 0
Has(m, k) == k \in DOMAIN m
Store(m, k, v) == [x \in DOMAIN m \cup {k} |-> IF x = k THEN v ELSE m[x]]
Delete(m, k) == [x \in DOMAIN m \ {k} |-> m[x]]
\* Load of a value: nil when the key is not stored
LoadAny(m, k) == IF k \in DOMAIN m THEN m[k] ELSE Nil

\* time.Time.After
AfterOrEqual(t, d) == t >= d
After(t, d) == t > d

\* time.Time.Add
AddNothing(t, d) == t
Add(t, d) == t + d

\* ------------------------------------------------------------------- New
NewUnchecked(c) ==
    [config |-> [GlobalTTL |-> c.GlobalTTL,
                 ExtendTTL |-> c.ExtendTTL,
                 AsyncSemaphore |-> c.AsyncSemaphore],
     semaphore |-> [cap |-> IF c.AsyncSemaphore > 0 THEN c.AsyncSemaphore
                            ELSE defaultSemaphore,
                    len |-> 0]]
New(c) ==
    [config |-> [GlobalTTL |-> IF c.GlobalTTL <= 0 THEN defaultTTL ELSE c.GlobalTTL,
                 ExtendTTL |-> c.ExtendTTL,
                 AsyncSemaphore |-> c.AsyncSemaphore],
     semaphore |-> [cap |-> IF c.AsyncSemaphore > 0 THEN c.AsyncSemaphore
                            ELSE defaultSemaphore,
                    len |-> 0]]

InitWith(sc, inputs) ==
    /\ \E i \in inputs :
          /\ scope = [callers |-> sc.callers, keys |-> sc.keys,
                      maxOps |-> sc.maxOps, maxClock |-> sc.maxClock,
                      input |-> i]
          /\ config = New(i).config
          /\ semaphore = New(i).semaphore
    /\ mapStorage = [k \in {} |-> Nil]
    /\ timeStorage = [k \in {} |-> 0]
    /\ clock = 0
    /\ frame = [t \in Threads |-> IdleFrame]
    /\ errChan = [w \in Workers |-> <<>>]
    /\ ghost = [t \in Threads |-> IdleGhost]
    /\ hist = [k \in Keys |-> NoHist]
    /\ nops = 0

Init ==
    InitWith([callers |-> Callers, keys |-> {"k1"}, maxOps |-> MaxOps, maxClock |-> MaxClock],
             ConfigInputs)

InitSeq ==
    InitWith([callers |-> {1}, keys |-> {"k1"}, maxOps |-> MaxOpsSeq, maxClock |-> MaxClockSeq],
             ConfigInputs)

InitExt ==
    InitWith([callers |-> {1}, keys |-> {"k1"}, maxOps |-> MaxOpsExt, maxClock |-> MaxClockExt],
             {i \in ConfigInputs : i.ExtendTTL > 0})

InitNew ==
    InitWith([callers |-> {1}, keys |-> {"k1"}, maxOps |-> MaxOpsNew, maxClock |-> MaxClockNew],
             NewInputs)

InitKeys ==
    InitWith([callers |-> {1}, keys |-> Keys, maxOps |-> MaxOpsKeys, maxClock |-> MaxClockKeys],
             ConfigInputs)

InitLive ==
    InitWith([callers |-> {1}, keys |-> {"k1"}, maxOps |-> MaxOpsLive, maxClock |-> MaxClockLive],
             ConfigInputs)

\* ----------------------------------------------------- observation helpers
\* thread u is inside a call
Active(u) == frame[u].pc \notin {"idle", "ret", "done"}

\* client p may start a public call; the clients are interchangeable, and the
\* free client with the least number makes the next call
Free(p) == frame[p].pc \in {"idle", "ret"}
Begin(p) ==
    /\ p \in scope.callers
    /\ Free(p)
    /\ \A q \in scope.callers : q < p => ~Free(q)
    /\ nops < scope.maxOps

\* the record of a call of key k that starts now
Fresh(k) ==
    [IdleGhost EXCEPT !.pre = IF hist[k].st = "done" THEN hist[k].op
                              ELSE IF hist[k].st = "ext" THEN "updateTTL"
                              ELSE "none",
                      !.preN = hist[k].n]

\* record g after thread t wrote a store of key k
Wrote(g, t, k) ==
    [u \in Threads |->
        IF u = t THEN [g[u] EXCEPT !.wrote = TRUE]
        ELSE IF Active(u) /\ frame[u].key = k THEN [g[u] EXCEPT !.dirty = TRUE]
        ELSE g[u]]

\* the first write of c.Set(k, v) or of c.Delete(k) by thread t running op
HistBegin(t, op, k, v) ==
    [hist EXCEPT ![k] =
        [st |-> "mid", by |-> t, op |-> op, v |-> v, t |-> 0, n |-> 0]]
\* updateTTL(k, ExtendTTL) by thread t running op: the value of the last
\* completed c.Set stays, the expiry is the one written now
HistExtend(t, op, k) ==
    [hist EXCEPT ![k] =
        IF hist[k].st \in {"done", "ext"} /\ hist[k].op # "Delete"
        THEN [hist[k] EXCEPT !.st = "ext", !.by = t, !.op = op, !.t = clock, !.n = 0]
        ELSE NoHist]
\* a loadOrStore of the expired key k whose callback failed returns without
\* writing a store
HistFailed(k) ==
    [hist EXCEPT ![k].n = IF hist[k].st \in {"done", "ext"} THEN @ + 1 ELSE @]
\* the second write of c.Set or of c.Delete by thread t
HistEnd(t, k) ==
    [hist EXCEPT ![k] = IF hist[k].st = "mid" /\ hist[k].by = t
                        THEN [hist[k] EXCEPT !.st = "done", !.t = clock]
                        ELSE NoHist]

\* The results of a returned call stay in its frame (pc = "ret") for one step:
\* the client takes them, and every step starts from the frames and records
\* of the calls that are still running.
Live == [t \in Threads |-> IF frame[t].pc = "ret" THEN IdleFrame ELSE frame[t]]
LiveGhost == [t \in Threads |-> IF frame[t].pc = "ret" THEN IdleGhost ELSE ghost[t]]

\* the frame of a call that has returned: its results
Ret(f) == [IdleFrame EXCEPT !.pc = "ret", !.op = f.op, !.key = f.key, !.ok = f.ok,
                            !.d = f.d, !.entry = f.entry, !.err = f.err,
                            !.ch = f.ch, !.ttl = f.ttl]

\* ------------------------------------------------------------------ clock
\* the clock is observed by now() only: it advances when some thread is about
\* to call now()
ReadsClock(t) == frame[t].pc \in {"now", "check_now", "ttl_now", "set_time", "extend"}

Tick ==
    /\ clock < scope.maxClock
    /\ \E t \in Threads : ReadsClock(t)
    /\ clock' = clock + 1
    /\ frame' = Live
    /\ ghost' = LiveGhost
    /\ UNCHANGED <<config, semaphore, mapStorage, timeStorage, errChan, hist,
                   nops, scope>>

\* ------------------------------------------------------ c.Set (two stores)
\* Set, called by the client: c.mapStorage.Store(key, value)
Set(p, k, v) ==
    /\ Begin(p)
    /\ nops' = nops + 1
    /\ mapStorage' = Store(mapStorage, k, v)
    /\ hist' = HistBegin(p, "Set", k, v)
    /\ frame' = [Live EXCEPT ![p] =
          [IdleFrame EXCEPT !.pc = "set_time", !.op = "Set", !.key = k, !.newValue = v]]
    /\ ghost' = Wrote([LiveGhost EXCEPT ![p] = Fresh(k)], p, k)
    /\ UNCHANGED <<config, semaphore, timeStorage, clock, errChan, scope>>

\* c.Set(key, newValue) called by loadOrStore, asyncLoadOrStore and
\* updateCache: c.mapStorage.Store(key, value)
SetValue(t) ==
    /\ frame[t].pc = "set_value"
    /\ mapStorage' = Store(mapStorage, frame[t].key, frame[t].newValue)
    /\ hist' = HistBegin(t, frame[t].op, frame[t].key, frame[t].newValue)
    /\ frame' = [Live EXCEPT ![t].pc = "set_time"]
    /\ ghost' = Wrote(LiveGhost, t, frame[t].key)
    /\ UNCHANGED <<config, semaphore, timeStorage, clock, errChan, nops, scope>>

\* the frame after c.Set returned: Set returns, loadOrStore and
\* asyncLoadOrStore return newValue as entry.Value, updateCache runs its
\* deferred function
AfterSet(f) ==
    IF f.op = "Set" THEN Ret(f)
    ELSE IF f.op = "updateCache" THEN [f EXCEPT !.pc = "release"]
    ELSE Ret([f EXCEPT !.entry.Value = f.newValue])

\* c.timeStorage.Store(key, now().Add(c.config.GlobalTTL))
SetTime(t) ==
    /\ frame[t].pc = "set_time"
    /\ timeStorage' = Store(timeStorage, frame[t].key, Add(clock, config.GlobalTTL))
    /\ hist' = HistEnd(t, frame[t].key)
    /\ frame' = [Live EXCEPT ![t] = AfterSet(frame[t])]
    /\ ghost' = Wrote(LiveGhost, t, frame[t].key)
    /\ UNCHANGED <<config, semaphore, mapStorage, clock, errChan, nops, scope>>

\* ----------------------------------------------------------------- Delete
\* c.mapStorage.Delete(key)
Delete_mapStorageAll(p, k) ==
    /\ Begin(p)
    /\ nops' = nops + 1
    /\ mapStorage' = [x \in {} |-> Nil]
    /\ hist' = HistBegin(p, "Delete", k, Nil)
    /\ frame' = [Live EXCEPT ![p] =
          [IdleFrame EXCEPT !.pc = "delete_time", !.op = "Delete", !.key = k]]
    /\ ghost' = Wrote([LiveGhost EXCEPT ![p] = Fresh(k)], p, k)
    /\ UNCHANGED <<config, semaphore, timeStorage, clock, errChan, scope>>
Delete_mapStorage(p, k) ==
    /\ Begin(p)
    /\ nops' = nops + 1
    /\ mapStorage' = Delete(mapStorage, k)
    /\ hist' = HistBegin(p, "Delete", k, Nil)
    /\ frame' = [Live EXCEPT ![p] =
          [IdleFrame EXCEPT !.pc = "delete_time", !.op = "Delete", !.key = k]]
    /\ ghost' = Wrote([LiveGhost EXCEPT ![p] = Fresh(k)], p, k)
    /\ UNCHANGED <<config, semaphore, timeStorage, clock, errChan, scope>>

\* c.timeStorage.Delete(key)
Delete_timeStorageSkipped(p) ==
    /\ frame[p].pc = "delete_time"
    /\ hist' = HistEnd(p, frame[p].key)
    /\ frame' = [Live EXCEPT ![p] = Ret(frame[p])]
    /\ ghost' = Wrote(LiveGhost, p, frame[p].key)
    /\ UNCHANGED <<config, semaphore, mapStorage, timeStorage, clock, errChan,
                   nops, scope>>
Delete_timeStorage(p) ==
    /\ frame[p].pc = "delete_time"
    /\ timeStorage' = Delete(timeStorage, frame[p].key)
    /\ hist' = HistEnd(p, frame[p].key)
    /\ frame' = [Live EXCEPT ![p] = Ret(frame[p])]
    /\ ghost' = Wrote(LiveGhost, p, frame[p].key)
    /\ UNCHANGED <<config, semaphore, mapStorage, clock, errChan, nops, scope>>

\* -------------------------------------------------------------------- TTL
\* what TTL(k) returns when it runs without interruption
TTLNow(k) == IF Has(timeStorage, k) THEN Load(timeStorage, k) - clock ELSE 0

\* v, ok := c.timeStorage.Load(key); return 0 when !ok
TTL_Load(p, k) ==
    /\ Begin(p)
    /\ nops' = nops + 1
    /\ frame' = [Live EXCEPT ![p] =
          IF Has(timeStorage, k)
          THEN [IdleFrame EXCEPT !.pc = "ttl_now", !.op = "TTL", !.key = k,
                                 !.ok = TRUE, !.d = Load(timeStorage, k)]
          ELSE Ret([IdleFrame EXCEPT !.op = "TTL", !.key = k, !.ttl = 0])]
    /\ ghost' = [LiveGhost EXCEPT ![p] = Fresh(k)]
    /\ UNCHANGED <<config, semaphore, mapStorage, timeStorage, clock, errChan,
                   hist, scope>>

\* return d.Sub(now())
TTL_SubReversed(p) ==
    /\ frame[p].pc = "ttl_now"
    /\ frame' = [Live EXCEPT ![p] = Ret([frame[p] EXCEPT !.ttl = clock - frame[p].d])]
    /\ ghost' = LiveGhost
    /\ UNCHANGED <<config, semaphore, mapStorage, timeStorage, clock, errChan,
                   hist, nops, scope>>
TTL_Sub(p) ==
    /\ frame[p].pc = "ttl_now"
    /\ frame' = [Live EXCEPT ![p] = Ret([frame[p] EXCEPT !.ttl = frame[p].d - clock])]
    /\ ghost' = LiveGhost
    /\ UNCHANGED <<config, semaphore, mapStorage, timeStorage, clock, errChan,
                   hist, nops, scope>>

\* ------------------------------------------------------------ the callbacks
\* what a SyncCallback can return: (value, useStale, err)
SyncCallbackResults ==
    [value : Values, useStale : BOOLEAN, err : {Nil}]
        \cup [value : {Nil}, useStale : BOOLEAN, err : Errors]

\* what an AsyncCallback can return: (value, err)
AsyncCallbackResults ==
    [value : Values, err : {Nil}] \cup [value : {Nil}, err : Errors]

\* the callback is entered by thread t
Invoked(t) == [LiveGhost EXCEPT ![t].calls = @ + 1]
\* record g after thread t read the clock for its expiry test: the clock and
\* the value the key has at that instant
Read(g, t) ==
    [g EXCEPT ![t].now = clock, ![t].seen = LoadAny(mapStorage, frame[t].key)]
\* the callback of thread t has returned r, with useStale = u
Returned(t, r, u) ==
    [LiveGhost EXCEPT ![t].cbErr = r.err, ![t].cbValue = r.value, ![t].cbStale = u]

\* ------------------------------------------------------------ loadOrStore
\* the frame after v, ok := c.timeStorage.Load(key): when !ok the callback
\* is invoked (first time miss)
AfterLoadMiss(op, k) ==
    [IdleFrame EXCEPT !.pc = "callback", !.op = op, !.key = k, !.ok = FALSE]
AfterLoad(op, k) ==
    IF Has(timeStorage, k)
    THEN [IdleFrame EXCEPT !.pc = "now", !.op = op, !.key = k, !.ok = TRUE,
                           !.d = Load(timeStorage, k)]
    ELSE [IdleFrame EXCEPT !.pc = "callback", !.op = op, !.key = k, !.ok = FALSE]

\* v, ok := c.timeStorage.Load(key)
LoadOrStore_Load(p, k) ==
    /\ Begin(p)
    /\ nops' = nops + 1
    /\ frame' = [Live EXCEPT ![p] = AfterLoad("loadOrStore", k)]
    /\ ghost' = [LiveGhost EXCEPT ![p] =
          [Fresh(k) EXCEPT !.calls = IF Has(timeStorage, k) THEN 0 ELSE 1]]
    /\ UNCHANGED <<config, semaphore, mapStorage, timeStorage, clock, errChan,
                   hist, scope>>

\* if now().After(d): the callback is invoked; otherwise entry.Stale is
\* false and the value is loaded
LoadOrStore_NowBlocking(p) ==
    /\ semaphore.len < semaphore.cap
    /\ frame[p].pc = "now"
    /\ frame[p].op = "loadOrStore"
    /\ IF After(clock, frame[p].d)
       THEN /\ frame' = [Live EXCEPT ![p].pc = "callback"]
            /\ ghost' = Read(Invoked(p), p)
       ELSE /\ frame' = [Live EXCEPT ![p].pc = "load_value"]
            /\ ghost' = Read(LiveGhost, p)
    /\ UNCHANGED <<config, semaphore, mapStorage, timeStorage, clock, errChan,
                   hist, nops, scope>>
LoadOrStore_Now(p) ==
    /\ frame[p].pc = "now"
    /\ frame[p].op = "loadOrStore"
    /\ IF After(clock, frame[p].d)
       THEN /\ frame' = [Live EXCEPT ![p].pc = "callback"]
            /\ ghost' = Read(Invoked(p), p)
       ELSE /\ frame' = [Live EXCEPT ![p].pc = "load_value"]
            /\ ghost' = Read(LiveGhost, p)
    /\ UNCHANGED <<config, semaphore, mapStorage, timeStorage, clock, errChan,
                   hist, nops, scope>>

\* the frame of loadOrStore after the callback returned r
LoadOrStore_AfterCallbackNoStore(f, r) ==
    IF r.err = Nil
    THEN IF f.ok THEN [f EXCEPT !.pc = "set_value", !.newValue = r.value]
         ELSE Ret([f EXCEPT !.entry.Value = r.value])
    ELSE IF ~f.ok \/ ~r.useStale
    THEN Ret([f EXCEPT !.err = r.err])
    ELSE [f EXCEPT !.pc = IF config.ExtendTTL > 0 THEN "extend" ELSE "load_value",
                   !.entry.Stale = TRUE, !.entry.Err = r.err]
LoadOrStore_AfterCallbackStaleOnMiss(f, r) ==
    IF r.err = Nil
    THEN [f EXCEPT !.pc = "set_value", !.newValue = r.value]
    ELSE IF ~r.useStale
    THEN Ret([f EXCEPT !.err = r.err])
    ELSE [f EXCEPT !.pc = IF config.ExtendTTL > 0 THEN "extend" ELSE "load_value",
                   !.entry.Stale = TRUE, !.entry.Err = r.err]
LoadOrStore_AfterCallbackIgnoreUseStale(f, r) ==
    IF ~f.ok
    THEN IF r.err # Nil
         THEN Ret([f EXCEPT !.err = r.err])
         ELSE [f EXCEPT !.pc = "set_value", !.newValue = r.value]
    ELSE IF r.err = Nil
         THEN [f EXCEPT !.pc = "set_value", !.newValue = r.value]
         ELSE [f EXCEPT !.pc = IF config.ExtendTTL > 0 THEN "extend" ELSE "load_value",
                        !.entry.Stale = TRUE, !.entry.Err = r.err]
LoadOrStore_AfterCallbackAlwaysExtend(f, r) ==
    IF ~f.ok
    THEN IF r.err # Nil
         THEN Ret([f EXCEPT !.err = r.err])
         ELSE [f EXCEPT !.pc = "set_value", !.newValue = r.value]
    ELSE IF r.err = Nil
         THEN [f EXCEPT !.pc = "set_value", !.newValue = r.value]
         ELSE IF ~r.useStale
         THEN Ret([f EXCEPT !.err = r.err])
         ELSE [f EXCEPT !.pc = "extend",
                        !.entry.Stale = TRUE, !.entry.Err = r.err]
LoadOrStore_AfterCallbackNoExtend(f, r) ==
    IF ~f.ok
    THEN IF r.err # Nil
         THEN Ret([f EXCEPT !.err = r.err])
         ELSE [f EXCEPT !.pc = "set_value", !.newValue = r.value]
    ELSE IF r.err = Nil
         THEN [f EXCEPT !.pc = "set_value", !.newValue = r.value]
         ELSE IF ~r.useStale
         THEN Ret([f EXCEPT !.err = r.err])
         ELSE [f EXCEPT !.pc = "load_value",
                        !.entry.Stale = TRUE, !.entry.Err = r.err]
LoadOrStore_AfterCallbackRetry(f, r) ==
    IF ~f.ok
    THEN IF r.err # Nil
         THEN Ret([f EXCEPT !.err = r.err])
         ELSE [f EXCEPT !.pc = "set_value", !.newValue = r.value]
    ELSE IF r.err = Nil
         THEN [f EXCEPT !.pc = "set_value", !.newValue = r.value]
         ELSE IF ~r.useStale
         THEN [f EXCEPT !.pc = "now"]
         ELSE [f EXCEPT !.pc = IF config.ExtendTTL > 0 THEN "extend" ELSE "load_value",
                        !.entry.Stale = TRUE, !.entry.Err = r.err]
LoadOrStore_AfterCallbackNoErr(f, r) ==
    IF ~f.ok
    THEN IF r.err # Nil
         THEN Ret([f EXCEPT !.err = r.err])
         ELSE [f EXCEPT !.pc = "set_value", !.newValue = r.value]
    ELSE IF r.err = Nil
         THEN [f EXCEPT !.pc = "set_value", !.newValue = r.value]
         ELSE IF ~r.useStale
         THEN Ret([f EXCEPT !.err = r.err])
         ELSE [f EXCEPT !.pc = IF config.ExtendTTL > 0 THEN "extend" ELSE "load_value",
                        !.entry.Stale = TRUE]
LoadOrStore_AfterCallback(f, r) ==
    IF ~f.ok
    THEN \* first time miss
         IF r.err # Nil
         THEN Ret([f EXCEPT !.err = r.err])
         ELSE [f EXCEPT !.pc = "set_value", !.newValue = r.value]
    ELSE \* expired
         IF r.err = Nil
         THEN [f EXCEPT !.pc = "set_value", !.newValue = r.value]
         ELSE IF ~r.useStale
         THEN Ret([f EXCEPT !.err = r.err])
         ELSE [f EXCEPT !.pc = IF config.ExtendTTL > 0 THEN "extend" ELSE "load_value",
                        !.entry.Stale = TRUE, !.entry.Err = r.err]

\* newValue, useStale, err = callback(ctx, key) returns
LoadOrStore_Callback(p, r) ==
    /\ frame[p].pc = "callback"
    /\ frame[p].op = "loadOrStore"
    /\ frame' = [Live EXCEPT ![p] = LoadOrStore_AfterCallback(frame[p], r)]
    /\ ghost' = Returned(p, r, r.useStale)
    /\ hist' = IF /\ frame[p].ok /\ r.err # Nil /\ ~ghost[p].dirty
                  /\ ~(r.useStale /\ config.ExtendTTL > 0)
               THEN HistFailed(frame[p].key)
               ELSE hist
    /\ UNCHANGED <<config, semaphore, mapStorage, timeStorage, clock, errChan,
                   nops, scope>>

\* updateTTL: c.timeStorage.Store(key, now().Add(ttl)), called with
\* c.config.ExtendTTL by loadOrStore (which loads the value next) and by
\* updateCache (which invokes the callback next)
UpdateTTLNoStore(t) ==
    /\ frame[t].pc = "extend"
    /\ hist' = HistExtend(t, frame[t].op, frame[t].key)
    /\ frame' = [Live EXCEPT ![t].pc =
          IF frame[t].op = "updateCache" THEN "callback" ELSE "load_value"]
    /\ ghost' = Wrote(IF frame[t].op = "updateCache" THEN Invoked(t) ELSE LiveGhost,
                      t, frame[t].key)
    /\ UNCHANGED <<config, semaphore, mapStorage, timeStorage, clock, errChan,
                   nops, scope>>
UpdateTTL(t) ==
    /\ frame[t].pc = "extend"
    /\ timeStorage' = Store(timeStorage, frame[t].key, Add(clock, config.ExtendTTL))
    /\ hist' = HistExtend(t, frame[t].op, frame[t].key)
    /\ frame' = [Live EXCEPT ![t].pc =
          IF frame[t].op = "updateCache" THEN "callback" ELSE "load_value"]
    /\ ghost' = Wrote(IF frame[t].op = "updateCache" THEN Invoked(t) ELSE LiveGhost,
                      t, frame[t].key)
    /\ UNCHANGED <<config, semaphore, mapStorage, clock, errChan, nops, scope>>

\* v, _ = c.mapStorage.Load(key); entry.Value = v; return
LoadValue(p) ==
    /\ frame[p].pc = "load_value"
    /\ frame' = [Live EXCEPT ![p] =
          Ret([frame[p] EXCEPT !.entry.Value = LoadAny(mapStorage, frame[p].key)])]
    /\ ghost' = LiveGhost
    /\ UNCHANGED <<config, semaphore, mapStorage, timeStorage, clock, errChan,
                   hist, nops, scope>>

\* ------------------------------------------------------- asyncLoadOrStore
\* the goroutines started so far, and the calls that may still start one
Started == {w \in Workers : frame[w].pc # "idle"}
MayStart == {p \in Callers : frame[p].op = "asyncLoadOrStore" /\ frame[p].pc = "now"}
\* the goroutine the next go statement starts
NextWorker == CHOOSE w \in Workers \ Started : \A u \in Workers \ Started : w <= u

\* v, ok := c.timeStorage.Load(key)
AsyncLoadOrStore_Load(p, k) ==
    /\ Begin(p)
    /\ Cardinality(Started) + Cardinality(MayStart) < MaxWorkers
    /\ nops' = nops + 1
    /\ frame' = [Live EXCEPT ![p] = AfterLoad("asyncLoadOrStore", k)]
    /\ ghost' = [LiveGhost EXCEPT ![p] =
          [Fresh(k) EXCEPT !.calls = IF Has(timeStorage, k) THEN 0 ELSE 1]]
    /\ UNCHANGED <<config, semaphore, mapStorage, timeStorage, clock, errChan,
                   hist, scope>>

\* the frame of asyncLoadOrStore after the callback returned r (first time miss)
AsyncLoadOrStore_AfterCallbackNoStore(f, r) ==
    IF r.err # Nil
    THEN Ret([f EXCEPT !.err = r.err])
    ELSE Ret([f EXCEPT !.entry.Value = r.value])
AsyncLoadOrStore_AfterCallback(f, r) ==
    IF r.err # Nil
    THEN Ret([f EXCEPT !.err = r.err])
    ELSE [f EXCEPT !.pc = "set_value", !.newValue = r.value]

\* newValue, err = callback(ctx, key) returns
AsyncLoadOrStore_Callback(p, r) ==
    /\ frame[p].pc = "callback"
    /\ frame[p].op = "asyncLoadOrStore"
    /\ frame' = [Live EXCEPT ![p] = AsyncLoadOrStore_AfterCallback(frame[p], r)]
    /\ ghost' = Returned(p, r, FALSE)
    /\ UNCHANGED <<config, semaphore, mapStorage, timeStorage, clock, errChan,
                   hist, nops, scope>>

\* the frames after the expiry test of asyncLoadOrStore in client p:
\* if now().After(d) { ch = make(chan error, 1); go c.updateCache(ctx, key,
\* callback, ch); entry.Stale = true }
AsyncLoadOrStore_AfterNowAlways(p, expired) ==
    [Live EXCEPT
        ![p].pc = "load_value", ![p].ch = NextWorker, ![p].entry.Stale = TRUE,
        ![NextWorker] = [IdleFrame EXCEPT !.pc = "acquire", !.op = "updateCache",
                                          !.key = frame[p].key]]
AsyncLoadOrStore_AfterNowInline(p, expired) ==
    IF expired
    THEN [Live EXCEPT ![p].pc = "callback"]
    ELSE [Live EXCEPT ![p].pc = "load_value"]
AsyncLoadOrStore_AfterNowDedup(p, expired) ==
    LET running == {w \in Workers : frame[w].pc \notin {"idle", "done"}
                                     /\ frame[w].key = frame[p].key} IN
    IF expired /\ running # {}
    THEN [Live EXCEPT
            ![p].pc = "load_value", ![p].entry.Stale = TRUE,
            ![p].ch = CHOOSE w \in running : TRUE]
    ELSE IF expired
    THEN [Live EXCEPT
            ![p].pc = "load_value", ![p].ch = NextWorker, ![p].entry.Stale = TRUE,
            ![NextWorker] = [IdleFrame EXCEPT !.pc = "acquire", !.op = "updateCache",
                                              !.key = frame[p].key]]
    ELSE [Live EXCEPT ![p].pc = "load_value"]
AsyncLoadOrStore_AfterNowNoWorker(p, expired) ==
    IF expired
    THEN [Live EXCEPT ![p].pc = "load_value", ![p].entry.Stale = TRUE]
    ELSE [Live EXCEPT ![p].pc = "load_value"]
AsyncLoadOrStore_AfterNow(p, expired) ==
    IF expired
    THEN [Live EXCEPT
            ![p].pc = "load_value", ![p].ch = NextWorker, ![p].entry.Stale = TRUE,
            ![NextWorker] = [IdleFrame EXCEPT !.pc = "acquire", !.op = "updateCache",
                                              !.key = frame[p].key]]
    ELSE [Live EXCEPT ![p].pc = "load_value"]

AsyncLoadOrStore_NowBlocking(p) ==
    /\ semaphore.len < semaphore.cap
    /\ frame[p].pc = "now"
    /\ frame[p].op = "asyncLoadOrStore"
    /\ frame' = AsyncLoadOrStore_AfterNow(p, After(clock, frame[p].d))
    /\ ghost' = Read(LiveGhost, p)
    /\ UNCHANGED <<config, semaphore, mapStorage, timeStorage, clock, errChan,
                   hist, nops, scope>>
AsyncLoadOrStore_Now(p) ==
    /\ frame[p].pc = "now"
    /\ frame[p].op = "asyncLoadOrStore"
    /\ frame' = AsyncLoadOrStore_AfterNow(p, After(clock, frame[p].d))
    /\ ghost' = Read(LiveGhost, p)
    /\ UNCHANGED <<config, semaphore, mapStorage, timeStorage, clock, errChan,
                   hist, nops, scope>>

\* ------------------------------------------------------------ updateCache
\* the goroutines that have passed c.semaphore <- true
Admitted == {u \in Workers : frame[u].pc \notin {"idle", "acquire"}}

\* a send to the buffered channel c.semaphore can proceed
CanAcquireAlways == TRUE
CanAcquire == semaphore.len < semaphore.cap

\* c.semaphore <- true
AcquireUnbounded(w) ==
    /\ frame[w].pc = "acquire"
    /\ semaphore' = [semaphore EXCEPT !.len = @ + 1]
    /\ frame' = [Live EXCEPT ![w].pc = "check"]
    /\ ghost' = [LiveGhost EXCEPT ![w].rank = Cardinality(Admitted) + 1]
    /\ UNCHANGED <<config, mapStorage, timeStorage, clock, errChan, hist, nops,
                   scope>>
Acquire(w) ==
    /\ frame[w].pc = "acquire"
    /\ CanAcquire
    /\ semaphore' = [semaphore EXCEPT !.len = @ + 1]
    /\ frame' = [Live EXCEPT ![w].pc = "check"]
    /\ ghost' = [LiveGhost EXCEPT ![w].rank = Cardinality(Admitted) + 1]
    /\ UNCHANGED <<config, mapStorage, timeStorage, clock, errChan, hist, nops,
                   scope>>

\* the frame of updateCache once checkIfExpired has returned: return when not
\* expired, else extend the ttl when ExtendTTL > 0, else invoke the callback
UpdateCache_AfterCheckNoDefer(f, expired) ==
    IF ~expired
    THEN [IdleFrame EXCEPT !.pc = "done", !.op = "updateCache", !.key = f.key]
    ELSE IF config.ExtendTTL > 0 THEN [f EXCEPT !.pc = "extend"]
    ELSE [f EXCEPT !.pc = "callback"]
UpdateCache_AfterCheckIgnored(f, expired) ==
    IF config.ExtendTTL > 0 THEN [f EXCEPT !.pc = "extend"]
    ELSE [f EXCEPT !.pc = "callback"]
UpdateCache_AfterCheckExtends(f, expired) ==
    IF config.ExtendTTL > 0 THEN [f EXCEPT !.pc = "extend"]
    ELSE IF ~expired THEN [f EXCEPT !.pc = "release"]
    ELSE [f EXCEPT !.pc = "callback"]
UpdateCache_AfterCheckNoExtend(f, expired) ==
    IF ~expired THEN [f EXCEPT !.pc = "release"]
    ELSE [f EXCEPT !.pc = "callback"]
UpdateCache_AfterCheck(f, expired) ==
    IF ~expired THEN [f EXCEPT !.pc = "release"]
    ELSE IF config.ExtendTTL > 0 THEN [f EXCEPT !.pc = "extend"]
    ELSE [f EXCEPT !.pc = "callback"]

\* checkIfExpired: v, ok := c.timeStorage.Load(key); if !ok return true
CheckIfExpired_Load(w) ==
    /\ frame[w].pc = "check"
    /\ LET k == frame[w].key
           f == IF Has(timeStorage, k)
                THEN [frame[w] EXCEPT !.pc = "check_now", !.ok = TRUE,
                                      !.d = Load(timeStorage, k)]
                ELSE UpdateCache_AfterCheck(frame[w], TRUE)
       IN  /\ frame' = [Live EXCEPT ![w] = f]
           /\ ghost' = IF f.pc = "callback" THEN Invoked(w) ELSE LiveGhost
    /\ UNCHANGED <<config, semaphore, mapStorage, timeStorage, clock, errChan,
                   hist, nops, scope>>

\* checkIfExpired: return now().After(d)
CheckIfExpired_NowInclusive(w) ==
    /\ frame[w].pc = "check_now"
    /\ LET f == UpdateCache_AfterCheck(frame[w], AfterOrEqual(clock, frame[w].d))
       IN  /\ frame' = [Live EXCEPT ![w] = f]
           /\ ghost' = IF f.pc = "callback" THEN Invoked(w) ELSE LiveGhost
    /\ UNCHANGED <<config, semaphore, mapStorage, timeStorage, clock, errChan,
                   hist, nops, scope>>
CheckIfExpired_Now(w) ==
    /\ frame[w].pc = "check_now"
    /\ LET f == UpdateCache_AfterCheck(frame[w], After(clock, frame[w].d))
       IN  /\ frame' = [Live EXCEPT ![w] = f]
           /\ ghost' = IF f.pc = "callback" THEN Invoked(w) ELSE LiveGhost
    /\ UNCHANGED <<config, semaphore, mapStorage, timeStorage, clock, errChan,
                   hist, nops, scope>>

\* the frame of updateCache after the callback returned r:
\* newValue, err := callback(ctx, key) assigns the err the deferred function
\* sends; c.Set(key, newValue) when err == nil
UpdateCache_AfterCallbackShadowed(f, r) ==
    IF r.err = Nil
    THEN [f EXCEPT !.pc = "set_value", !.newValue = r.value]
    ELSE [f EXCEPT !.pc = "release"]
UpdateCache_AfterCallbackAlwaysSet(f, r) ==
    [f EXCEPT !.pc = "set_value", !.newValue = r.value, !.err = r.err]
UpdateCache_AfterCallbackNoRelease(f, r) ==
    IF r.err = Nil
    THEN [f EXCEPT !.pc = "set_value", !.newValue = r.value, !.err = r.err]
    ELSE [f EXCEPT !.pc = "send", !.err = r.err]
UpdateCache_AfterCallback(f, r) ==
    IF r.err = Nil
    THEN [f EXCEPT !.pc = "set_value", !.newValue = r.value, !.err = r.err]
    ELSE [f EXCEPT !.pc = "release", !.err = r.err]

UpdateCache_CallbackRevert(w, r) ==
    /\ frame[w].pc = "callback"
    /\ frame[w].op = "updateCache"
    /\ frame' = [Live EXCEPT ![w] = UpdateCache_AfterCallback(frame[w], r)]
    /\ ghost' = Returned(w, r, FALSE)
    /\ timeStorage' = IF r.err # Nil THEN Delete(timeStorage, frame[w].key)
                      ELSE timeStorage
    /\ UNCHANGED <<config, semaphore, mapStorage, clock, errChan,
                   hist, nops, scope>>
UpdateCache_Callback(w, r) ==
    /\ frame[w].pc = "callback"
    /\ frame[w].op = "updateCache"
    /\ frame' = [Live EXCEPT ![w] = UpdateCache_AfterCallback(frame[w], r)]
    /\ ghost' = Returned(w, r, FALSE)
    /\ UNCHANGED <<config, semaphore, mapStorage, timeStorage, clock, errChan,
                   hist, nops, scope>>

\* deferred: <-c.semaphore
ReleaseSkipped(w) ==
    /\ frame[w].pc = "release"
    /\ frame' = [Live EXCEPT ![w].pc = "send"]
    /\ ghost' = LiveGhost
    /\ UNCHANGED <<config, semaphore, mapStorage, timeStorage, clock, errChan,
                   hist, nops, scope>>
Release(w) ==
    /\ frame[w].pc = "release"
    /\ semaphore.len > 0
    /\ semaphore' = [semaphore EXCEPT !.len = @ - 1]
    /\ frame' = [Live EXCEPT ![w].pc = "send"]
    /\ ghost' = LiveGhost
    /\ UNCHANGED <<config, mapStorage, timeStorage, clock, errChan, hist, nops,
                   scope>>

\* a send to the buffered channel errChan can proceed: make(chan error, 1)
CanSend(w) == Len(errChan[w]) < 1

\* deferred: errChan <- err; the goroutine ends
Send(w) ==
    /\ frame[w].pc = "send"
    /\ CanSend(w)
    /\ errChan' = [errChan EXCEPT ![w] = Append(@, frame[w].err)]
    /\ frame' = [Live EXCEPT ![w] =
          [IdleFrame EXCEPT !.pc = "done", !.op = "updateCache", !.key = frame[w].key]]
    /\ ghost' = [LiveGhost EXCEPT ![w].sent = @ + 1]
    /\ UNCHANGED <<config, semaphore, mapStorage, timeStorage, clock, hist,
                   nops, scope>>

\* ------------------------------------------------------------------- steps
Next ==
    \/ Tick
    \/ \E p \in Callers, k \in scope.keys, v \in Values : Set(p, k, v)
    \/ \E t \in Threads : SetValue(t)
    \/ \E t \in Threads : SetTime(t)
    \/ \E p \in Callers, k \in scope.keys : Delete_mapStorage(p, k)
    \/ \E p \in Callers : Delete_timeStorage(p)
    \/ \E p \in Callers, k \in scope.keys : TTL_Load(p, k)
    \/ \E p \in Callers : TTL_Sub(p)
    \/ \E p \in Callers, k \in scope.keys : LoadOrStore_Load(p, k)
    \/ \E p \in Callers : LoadOrStore_Now(p)
    \/ \E p \in Callers, r \in SyncCallbackResults : LoadOrStore_Callback(p, r)
    \/ \E t \in Threads : UpdateTTL(t)
    \/ \E p \in Callers : LoadValue(p)
    \/ \E p \in Callers, k \in scope.keys : AsyncLoadOrStore_Load(p, k)
    \/ \E p \in Callers, r \in AsyncCallbackResults : AsyncLoadOrStore_Callback(p, r)
    \/ \E p \in Callers : AsyncLoadOrStore_Now(p)
    \/ \E w \in Workers : Acquire(w)
    \/ \E w \in Workers : CheckIfExpired_Load(w)
    \/ \E w \in Workers : CheckIfExpired_Now(w)
    \/ \E w \in Workers, r \in AsyncCallbackResults : UpdateCache_Callback(w, r)
    \/ \E w \in Workers : Release(w)
    \/ \E w \in Workers : Send(w)

\* one client, configurations that extend the expiry of a stale value
SpecExt == InitExt /\ [][Next]_vars

\* one client, two keys
SpecKeys == InitKeys /\ [][Next]_vars

\* one client, every kind of Config
SpecNew == InitNew /\ [][Next]_vars

\* concurrent clients
Spec == Init /\ [][Next]_vars

\* one client, and the goroutines it starts
SpecSeq == InitSeq /\ [][Next]_vars

\* a step of goroutine w of updateCache
UpdateCache_Step(w) ==
    \/ Acquire(w)
    \/ CheckIfExpired_Load(w)
    \/ CheckIfExpired_Now(w)
    \/ UpdateTTL(w)
    \/ \E r \in AsyncCallbackResults : UpdateCache_Callback(w, r)
    \/ SetValue(w)
    \/ SetTime(w)
    \/ Release(w)
    \/ Send(w)

\* the scheduler runs every goroutine that can take a step, and every
\* callback a goroutine invoked returns
SpecLive ==
    InitLive /\ [][Next]_vars /\ \A w \in Workers : WF_vars(UpdateCache_Step(w))
\* ------------------------------------------------------------------ claims
\* the goroutines that hold a slot of the limiter: c.semaphore <- true has
\* returned and <-c.semaphore has not
Holding ==
    {w \in Workers : frame[w].pc \in {"check", "check_now", "extend", "callback",
                                      "set_value", "set_time", "release"}}
\* the goroutines inside the callback
InRefresh == {w \in Workers : frame[w].pc = "callback"}
\* the limit the configuration asks for
ConcurrencyLimit == IF config.AsyncSemaphore > 0 THEN config.AsyncSemaphore ELSE 1

\* C1: in every reachable state the goroutines that hold a limiter slot are at
\* most concurrencyLimit (1 when configured non-positive), and so are the
\* goroutines inside the callback.
C1_LimiterBound ==
    /\ Cardinality(Holding) <= ConcurrencyLimit
    /\ Cardinality(InRefresh) <= ConcurrencyLimit

\* every slot is held and a further goroutine waits for one
C1_Witness ==
    /\ Cardinality(Holding) = ConcurrencyLimit
    /\ \E w \in Workers : frame[w].pc = "acquire"

\* C2: a goroutine sends to its channel exactly once: nothing before it
\* reaches the send, one value once it has ended, on every path, and the send
\* finds room in the channel.
C2_OneSend ==
    \A w \in Workers :
        /\ ghost[w].sent <= 1
        /\ frame[w].pc # "done" => ghost[w].sent = 0 /\ errChan[w] = <<>>
        /\ frame[w].pc = "done" => ghost[w].sent = 1 /\ Len(errChan[w]) = 1
        /\ frame[w].pc = "send" => CanSend(w)

\* one goroutine ended after a failed callback, another after the re-check
\* found the key fresh
C2_Witness ==
    \E w, u \in Workers :
        /\ frame[w].pc = "done" /\ ghost[w].calls = 1 /\ ghost[w].cbErr # Nil
        /\ frame[u].pc = "done" /\ ghost[u].calls = 0
        /\ ghost[w].sent = 1 /\ ghost[u].sent = 1
\* C3: under fair scheduling, and when every callback a goroutine invokes
\* returns, every goroutine that asyncLoadOrStore started ends, and its channel
\* then holds the error its callback returned (nil when the callback succeeded
\* or was not invoked): no goroutine waits for the limiter forever.
C3_SignalDelivered ==
    \A w \in Workers :
        (frame[w].pc = "acquire")
            ~> (frame[w].pc = "done" /\ errChan[w] = <<ghost[w].cbErr>>)

\* a channel holds the error of a failed callback
C3_Witness ==
    \E w \in Workers :
        /\ frame[w].pc = "done"
        /\ ghost[w].cbErr # Nil
        /\ errChan[w] = <<ghost[w].cbErr>>
\* C4: asyncLoadOrStore of a key whose expiry record exists never waits: its
\* expiry test and its load of the value can be taken in every state, whatever
\* the limiter holds and wherever the goroutines are.  When now() is after the
\* loaded expiry it returns the value the value store holds, Stale = true,
\* Err = nil, a nil error and the channel of a goroutine started for the key.
C4_StaleWithoutWaiting ==
    \A p \in Callers :
        frame[p].op = "asyncLoadOrStore" /\ frame[p].ok =>
            /\ frame[p].pc = "now" => ENABLED AsyncLoadOrStore_Now(p)
            /\ frame[p].pc = "load_value" => ENABLED LoadValue(p)
            /\ frame[p].pc \in {"load_value", "ret"} =>
                  (frame[p].entry.Stale <=> ghost[p].now > frame[p].d)
            /\ frame[p].pc = "ret" /\ ghost[p].now > frame[p].d =>
                  /\ frame[p].entry = [Value |-> LoadAny(mapStorage, frame[p].key),
                                       Stale |-> TRUE, Err |-> Nil]
                  /\ frame[p].err = Nil
                  /\ frame[p].ch \in Workers
                  /\ frame[frame[p].ch].op = "updateCache"
                  /\ frame[frame[p].ch].key = frame[p].key
                  /\ ghost[p].calls = 0

\* the call returned the stale value while every limiter slot is held by a
\* goroutine inside its callback and the call's own goroutine waits for a slot
C4_Witness ==
    \E p \in Callers :
        /\ frame[p].op = "asyncLoadOrStore" /\ frame[p].pc = "ret"
        /\ frame[p].entry.Stale /\ frame[p].entry.Value \in Values
        /\ frame[p].ch \in Workers /\ frame[frame[p].ch].pc = "acquire"
        /\ semaphore.len = semaphore.cap
        /\ Holding = InRefresh
\* a call of loadOrStore or asyncLoadOrStore by client p that has returned
Returned_LoadOrStore(p) == frame[p].pc = "ret" /\ frame[p].op = "loadOrStore"
Returned_Async(p) == frame[p].pc = "ret" /\ frame[p].op = "asyncLoadOrStore"

\* C5: once a goroutine's callback succeeded with value w, its c.Set(k, w) is
\* complete and its channel holds nil, a loadOrStore or asyncLoadOrStore of k
\* with no other write to k since that Set and the clock not after the new
\* expiry returns {w, Stale = false, Err = nil}, a nil error and no channel,
\* and does not invoke the callback.
C5_RefreshedValueServed ==
    \A p \in Callers :
        LET h == hist[frame[p].key] IN
        /\ Returned_LoadOrStore(p) \/ Returned_Async(p)
        /\ h.st = "done" /\ h.op = "updateCache"
        /\ errChan[h.by] = <<Nil>>
        /\ ~ghost[p].dirty
        /\ clock <= h.t + config.GlobalTTL
        => /\ h.v = ghost[h.by].cbValue
           /\ frame[p].entry = [Value |-> h.v, Stale |-> FALSE, Err |-> Nil]
           /\ frame[p].err = Nil
           /\ frame[p].ch = NoChan
           /\ ghost[p].calls = 0

\* a call returned the value a goroutine stored, at the last instant of its
\* validity
C5_Witness ==
    \E p \in Callers :
        LET h == hist[frame[p].key] IN
        /\ Returned_LoadOrStore(p) \/ Returned_Async(p)
        /\ h.st = "done" /\ h.op = "updateCache"
        /\ errChan[h.by] = <<Nil>>
        /\ ~ghost[p].dirty
        /\ clock = h.t + config.GlobalTTL
        /\ frame[p].entry.Value = ghost[h.by].cbValue

C7_FreshHit ==
    \A p \in Callers :
        LET k == frame[p].key
            h == hist[k] IN
        /\ Returned_LoadOrStore(p)
        /\ h.st = "done" /\ h.op = "Set"
        /\ ~ghost[p].dirty
        /\ clock <= h.t + config.GlobalTTL
        => /\ frame[p].entry = [Value |-> h.v, Stale |-> FALSE, Err |-> Nil]
           /\ frame[p].err = Nil
           /\ ghost[p].calls = 0
           /\ ~ghost[p].wrote
           /\ LoadAny(mapStorage, k) = h.v
           /\ Load(timeStorage, k) = h.t + config.GlobalTTL

\* a fresh hit at the last instant of the value's validity
C7_Witness ==
    \E p \in Callers :
        LET h == hist[frame[p].key] IN
        /\ Returned_LoadOrStore(p)
        /\ h.st = "done" /\ h.op = "Set"
        /\ ~ghost[p].dirty
        /\ clock = h.t + config.GlobalTTL
        /\ frame[p].entry.Value = h.v

\* C8: loadOrStore of a key with no expiry record invokes the callback exactly
\* once; when the callback succeeds with w the call returns {w, Stale = false,
\* Err = nil} and a nil error and has stored w with expiry now + GlobalTTL.
C8_MissStores ==
    \A p \in Callers :
        LET k == frame[p].key IN
        Returned_LoadOrStore(p) /\ ~frame[p].ok =>
            /\ ghost[p].calls = 1
            /\ ghost[p].cbErr = Nil =>
                  /\ frame[p].entry =
                        [Value |-> ghost[p].cbValue, Stale |-> FALSE, Err |-> Nil]
                  /\ frame[p].err = Nil
                  /\ ghost[p].wrote
                  /\ ~ghost[p].dirty =>
                        /\ LoadAny(mapStorage, k) = ghost[p].cbValue
                        /\ Has(timeStorage, k)
                        /\ Load(timeStorage, k) = clock + config.GlobalTTL

C8_Witness ==
    \E p \in Callers :
        /\ Returned_LoadOrStore(p) /\ ~frame[p].ok
        /\ ghost[p].cbErr = Nil /\ ~ghost[p].dirty
        /\ frame[p].entry.Value \in Values
        /\ LoadAny(mapStorage, frame[p].key) = frame[p].entry.Value

\* C9: when the callback of loadOrStore or asyncLoadOrStore fails for a key
\* with no expiry record, the call returns that error, the zero Entry and no
\* channel, whatever useStale is, and writes neither store: the key has no
\* expiry record afterwards unless another thread stored one.
C9_MissError ==
    \A p \in Callers :
        /\ Returned_LoadOrStore(p) \/ Returned_Async(p)
        /\ ~frame[p].ok
        /\ ghost[p].cbErr # Nil
        => /\ frame[p].err = ghost[p].cbErr
           /\ frame[p].entry = Entry
           /\ frame[p].ch = NoChan
           /\ ghost[p].calls = 1
           /\ ~ghost[p].wrote
           /\ ~ghost[p].dirty => ~Has(timeStorage, frame[p].key)

\* the callback failed and asked for the stale value
C9_Witness ==
    \E p \in Callers :
        /\ Returned_LoadOrStore(p) /\ ~frame[p].ok
        /\ ghost[p].cbErr # Nil /\ ghost[p].cbStale
        /\ frame[p].err = ghost[p].cbErr
        /\ ~Has(timeStorage, frame[p].key)

\* C10: after Set(k, v), a loadOrStore of k that reads the clock after the
\* expiry Set stored, with no other write to k since the Set, invokes the
\* callback exactly once; when the callback succeeds with w the call returns
\* {w, Stale = false, Err = nil}, has stored w, and TTL(k) at the clock value
\* of the store is GlobalTTL.
C10_ExpiredRefresh ==
    \A p \in Callers :
        LET k == frame[p].key IN
        /\ Returned_LoadOrStore(p) /\ frame[p].ok
        /\ ghost[p].pre = "Set"
        /\ ~ghost[p].dirty
        /\ ghost[p].now > frame[p].d
        => /\ ghost[p].calls = 1
           /\ ghost[p].cbErr = Nil =>
                 /\ frame[p].entry =
                       [Value |-> ghost[p].cbValue, Stale |-> FALSE, Err |-> Nil]
                 /\ frame[p].err = Nil
                 /\ LoadAny(mapStorage, k) = ghost[p].cbValue
                 /\ TTLNow(k) = config.GlobalTTL

C10_Witness ==
    \E p \in Callers :
        /\ Returned_LoadOrStore(p) /\ frame[p].ok
        /\ ghost[p].pre = "Set"
        /\ ~ghost[p].dirty
        /\ ghost[p].now > frame[p].d
        /\ ghost[p].cbErr = Nil
        /\ frame[p].entry.Value = ghost[p].cbValue
\* a loadOrStore by client p has returned, it found an expiry record, read the
\* clock after that expiry, and no other thread wrote its key meanwhile
Returned_Expired(p) ==
    /\ Returned_LoadOrStore(p) /\ frame[p].ok
    /\ ~ghost[p].dirty
    /\ ghost[p].now > frame[p].d

\* C11: after Set(k, v), a loadOrStore of k that reads the clock after the
\* expiry Set stored, with no other write to k since the Set, whose callback
\* fails with e and useStale = true returns a nil error and {v, Stale = true,
\* Err = e}; the value store still holds v; with ExtendTTL = x > 0 the expiry
\* stored is the clock value of updateTTL plus x, so TTL(k) at that clock value
\* is x, and with ExtendTTL = 0 the expiry is the one Set stored.
C11_StaleFallback ==
    \A p \in Callers :
        LET k == frame[p].key
            h == hist[k] IN
        /\ Returned_Expired(p)
        /\ ghost[p].pre = "Set"
        /\ ghost[p].cbErr # Nil /\ ghost[p].cbStale
        => /\ ghost[p].calls = 1
           /\ frame[p].err = Nil
           /\ frame[p].entry = [Value |-> h.v, Stale |-> TRUE, Err |-> ghost[p].cbErr]
           /\ LoadAny(mapStorage, k) = h.v
           /\ config.ExtendTTL > 0 =>
                 /\ h.st = "ext" /\ h.by = p
                 /\ Load(timeStorage, k) = h.t + config.ExtendTTL
                 /\ clock = h.t => TTLNow(k) = config.ExtendTTL
           /\ config.ExtendTTL = 0 =>
                 /\ h.st = "done" /\ h.op = "Set"
                 /\ Load(timeStorage, k) = frame[p].d
                 /\ ~ghost[p].wrote

\* the stale value was served and the expiry extended
C11_Witness ==
    \E p \in Callers :
        /\ Returned_Expired(p)
        /\ ghost[p].pre = "Set"
        /\ ghost[p].cbErr # Nil /\ ghost[p].cbStale
        /\ config.ExtendTTL > 0
        /\ frame[p].entry.Stale
        /\ frame[p].entry.Value \in Values
        /\ TTLNow(frame[p].key) = config.ExtendTTL
\* when the call of client p started, the last write of its key was a
\* completed c.Set (by Set, or by a refresh that succeeded)
PreStored(p) ==
    ghost[p].pre \in {"Set", "loadOrStore", "asyncLoadOrStore", "updateCache"}

\* C12: with ExtendTTL = 0, a loadOrStore of a key whose last write is a
\* completed c.Set, which reads the clock after the expiry or follows failed
\* loadOrStore calls of the key, finds the key expired and invokes the callback
\* exactly once; when the callback fails with useStale = true the expiry record
\* is left as it was and the call is one more failed call after that c.Set:
\* n consecutive such calls invoke the callback n times.
C12_NoExtensionRetries ==
    \A p \in Callers :
        LET k == frame[p].key
            h == hist[k] IN
        /\ Returned_LoadOrStore(p) /\ frame[p].ok
        /\ ~ghost[p].dirty
        /\ config.ExtendTTL = 0
        /\ PreStored(p)
        /\ ghost[p].now > frame[p].d \/ ghost[p].preN >= 1
        => /\ ghost[p].now > frame[p].d
           /\ ghost[p].calls = 1
           /\ ghost[p].cbErr # Nil /\ ghost[p].cbStale =>
                 /\ frame[p].entry.Stale
                 /\ ~ghost[p].wrote
                 /\ Load(timeStorage, k) = frame[p].d
                 /\ h.st = "done" /\ h.n = ghost[p].preN + 1

\* the second of two consecutive calls that served the stale value
C12_Witness ==
    \E p \in Callers :
        /\ Returned_LoadOrStore(p) /\ frame[p].ok
        /\ ~ghost[p].dirty
        /\ config.ExtendTTL = 0
        /\ ghost[p].pre = "Set"
        /\ ghost[p].preN = 1
        /\ ghost[p].cbErr # Nil /\ ghost[p].cbStale
        /\ ghost[p].calls = 1
        /\ hist[frame[p].key].n = 2
\* C13: with ExtendTTL = x > 0, a loadOrStore that served the stale value after
\* updateTTL ran at clock value t leaves the expiry t + x; a later loadOrStore
\* of the key, nothing else having written it, that reads the clock at or
\* before t + x invokes no callback and returns the old value with Stale =
\* false, and one that reads the clock after t + x invokes the callback once.
C13_ExtensionWindow ==
    \A p \in Callers :
        LET k == frame[p].key
            h == hist[k] IN
        /\ Returned_LoadOrStore(p) /\ ~ghost[p].dirty /\ config.ExtendTTL > 0 =>
            /\ frame[p].entry.Stale =>
                  /\ h.st = "ext" => h.by = p /\ h.op = "loadOrStore"
                  /\ h.by = p => Load(timeStorage, k) = h.t + config.ExtendTTL
            /\ ghost[p].pre = "updateTTL" =>
                  /\ frame[p].ok
                  /\ ghost[p].now <= frame[p].d =>
                        /\ ghost[p].calls = 0
                        /\ h.st = "ext"
                        /\ frame[p].d = h.t + config.ExtendTTL
                        /\ frame[p].entry = [Value |-> h.v, Stale |-> FALSE, Err |-> Nil]
                        /\ frame[p].err = Nil
                        /\ ~ghost[p].wrote
                  /\ ghost[p].now > frame[p].d => ghost[p].calls = 1

\* a call at the last instant of the extension, which invoked nothing
C13_Witness ==
    \E p \in Callers :
        LET h == hist[frame[p].key] IN
        /\ Returned_LoadOrStore(p) /\ ~ghost[p].dirty
        /\ ghost[p].pre = "updateTTL"
        /\ h.st = "ext" /\ h.op = "loadOrStore"
        /\ ghost[p].now = h.t + config.ExtendTTL
        /\ ghost[p].calls = 0
        /\ frame[p].entry.Value \in Values

\* a call after the end of the extension, which invoked the callback again
C13_WitnessAfter ==
    \E p \in Callers :
        /\ Returned_LoadOrStore(p) /\ ~ghost[p].dirty
        /\ ghost[p].pre = "updateTTL"
        /\ ghost[p].now > frame[p].d
        /\ ghost[p].calls = 1
\* when the call of client p started, the last write of its key was a
\* completed c.Set or an updateTTL after one
PreKnown(p) == PreStored(p) \/ ghost[p].pre = "updateTTL"

\* C14: a loadOrStore that finds the key expired and whose callback fails with
\* useStale = false returns that error and the zero Entry and writes neither
\* store, whatever ExtendTTL is: the expiry is the one the call loaded and the
\* value the one last stored. A loadOrStore that follows such a failed call,
\* nothing having written the key, finds the key expired and invokes the
\* callback again.
C14_RejectedFallback ==
    \A p \in Callers :
        LET k == frame[p].key
            h == hist[k] IN
        /\ Returned_Expired(p) /\ ghost[p].cbErr # Nil /\ ~ghost[p].cbStale =>
              /\ ghost[p].calls = 1
              /\ frame[p].err = ghost[p].cbErr
              /\ frame[p].entry = Entry
              /\ ~ghost[p].wrote
              /\ Load(timeStorage, k) = frame[p].d
              /\ PreKnown(p) =>
                    /\ h.st \in {"done", "ext"}
                    /\ LoadAny(mapStorage, k) = h.v
                    /\ h.n = ghost[p].preN + 1
        /\ /\ Returned_LoadOrStore(p) /\ ~ghost[p].dirty
           /\ PreKnown(p) /\ ghost[p].preN >= 1
           => /\ frame[p].ok
              /\ ghost[p].now > frame[p].d
              /\ ghost[p].calls = 1

\* with ExtendTTL > 0, a call after a rejected fallback invoked the callback,
\* which failed again and was rejected again
C14_Witness ==
    \E p \in Callers :
        /\ Returned_Expired(p) /\ ghost[p].cbErr # Nil /\ ~ghost[p].cbStale
        /\ config.ExtendTTL > 0
        /\ ghost[p].pre = "Set" /\ ghost[p].preN = 1
        /\ ghost[p].calls = 1
        /\ frame[p].err = ghost[p].cbErr
        /\ Load(timeStorage, frame[p].key) = frame[p].d
\* a call of op by client p has returned and no other thread wrote its key
\* meanwhile
Returned_Clean(p, op) ==
    frame[p].pc = "ret" /\ frame[p].op = op /\ ~ghost[p].dirty

\* C15: when Delete(k) returns, no other thread having written k meanwhile,
\* neither store holds k and TTL(k) is 0; a TTL(k) that follows, nothing having
\* written k since, returns 0, and a loadOrStore(k) that follows finds no
\* expiry record and invokes the callback.
C15_DeleteForgets ==
    \A p \in Callers :
        LET k == frame[p].key IN
        /\ Returned_Clean(p, "Delete") =>
              /\ ~Has(mapStorage, k)
              /\ ~Has(timeStorage, k)
              /\ TTLNow(k) = 0
              /\ hist[k].st = "done" /\ hist[k].op = "Delete"
        /\ Returned_Clean(p, "TTL") /\ ghost[p].pre = "Delete" =>
              /\ ~frame[p].ok
              /\ frame[p].ttl = 0
        /\ Returned_Clean(p, "loadOrStore") /\ ghost[p].pre = "Delete" =>
              /\ ~frame[p].ok
              /\ ghost[p].calls = 1

\* a loadOrStore after the Delete of a key invoked the callback and stored
\* its value
C15_Witness ==
    \E p \in Callers :
        /\ Returned_Clean(p, "loadOrStore") /\ ghost[p].pre = "Delete"
        /\ ~frame[p].ok /\ ghost[p].calls = 1
        /\ frame[p].entry.Value \in Values

\* the Delete of a key that Set had stored
C15_WitnessStored ==
    \E p \in Callers :
        /\ Returned_Clean(p, "Delete") /\ ghost[p].pre = "Set"
        /\ ~Has(timeStorage, frame[p].key)
\* C16: an asyncLoadOrStore that found an expiry record returns a nil error
\* and an Entry whose Err is nil, and has not invoked the callback itself,
\* also when the goroutine it started has already failed; the error of a
\* goroutine's callback is what its channel holds when the goroutine has ended.
C16_NoInlineError ==
    /\ \A p \in Callers :
          Returned_Async(p) /\ frame[p].ok =>
              /\ frame[p].err = Nil
              /\ frame[p].entry.Err = Nil
              /\ ghost[p].calls = 0
              /\ ghost[p].cbErr = Nil
    /\ \A w \in Workers :
          frame[w].pc = "done" /\ ghost[w].cbErr # Nil =>
              errChan[w] = <<ghost[w].cbErr>>

\* the call returns after the callback of the goroutine it started has failed
C16_Witness ==
    \E p \in Callers :
        /\ Returned_Async(p) /\ frame[p].ok
        /\ frame[p].ch \in Workers
        /\ ghost[frame[p].ch].cbErr # Nil
        /\ frame[p].err = Nil /\ frame[p].entry.Err = Nil

\* a goroutine has ended and its channel holds the error of its callback
C16_WitnessChannel ==
    \E w \in Workers :
        frame[w].pc = "done" /\ ghost[w].cbErr # Nil /\ errChan[w] = <<ghost[w].cbErr>>
\* the steps of asyncLoadOrStore in client p once it has read the clock at or
\* before the expiry it loaded
FreshAsyncStep(p) ==
    /\ frame[p].op = "asyncLoadOrStore"
    /\ frame'[p].op = "asyncLoadOrStore"
    /\ \/ frame[p].pc = "now" /\ clock <= frame[p].d /\ frame'[p].pc = "load_value"
       \/ /\ frame[p].pc = "load_value" /\ ghost[p].now <= frame[p].d
          /\ frame'[p].pc = "ret"

\* what asyncLoadOrStore has returned when the key was not expired
FreshAsyncResult(p) ==
    LET k == frame[p].key
        h == hist[k] IN
    /\ frame[p].entry.Stale = FALSE
    /\ frame[p].entry.Err = Nil
    /\ frame[p].ch = NoChan
    /\ frame[p].err = Nil
    /\ ghost[p].calls = 0
    /\ ~ghost[p].wrote
    /\ ~ghost[p].dirty =>
          /\ frame[p].entry.Value = LoadAny(mapStorage, k)
          /\ Load(timeStorage, k) = frame[p].d
          /\ PreKnown(p) => h.st \in {"done", "ext"} /\ frame[p].entry.Value = h.v

\* C17: an asyncLoadOrStore that finds an expiry record and reads the clock at
\* or before it returns {stored value, Stale = false, Err = nil}, a nil channel
\* and a nil error without invoking the callback; its steps start no
\* goroutine and change neither the semaphore, nor a store, nor a channel.
C17_FreshAsync ==
    /\ [](\A p \in Callers :
            Returned_Async(p) /\ frame[p].ok /\ ghost[p].now <= frame[p].d
                => FreshAsyncResult(p))
    /\ [][\A p \in Callers :
            FreshAsyncStep(p) =>
                /\ Started' = Started
                /\ UNCHANGED <<semaphore, mapStorage, timeStorage, errChan>>]_vars

\* a fresh hit at the last instant of the value's validity
C17_Witness ==
    \E p \in Callers :
        /\ Returned_Async(p) /\ frame[p].ok /\ ~ghost[p].dirty
        /\ ghost[p].now = frame[p].d
        /\ ghost[p].pre = "Set"
        /\ frame[p].entry.Value = hist[frame[p].key].v
        /\ frame[p].ch = NoChan
\* what the first-time-miss branch has returned and stored, as a function of
\* what the callback returned
MissResult(p) ==
    LET k == frame[p].key
        h == hist[k] IN
    /\ ghost[p].calls = 1
    /\ frame[p].ch = NoChan
    /\ IF ghost[p].cbErr = Nil
       THEN /\ frame[p].entry =
                  [Value |-> ghost[p].cbValue, Stale |-> FALSE, Err |-> Nil]
            /\ frame[p].err = Nil
            /\ ghost[p].wrote
            /\ ~ghost[p].dirty =>
                  /\ LoadAny(mapStorage, k) = ghost[p].cbValue
                  /\ Has(timeStorage, k)
                  /\ Load(timeStorage, k) = clock + config.GlobalTTL
                  /\ h.st = "done" /\ h.by = p /\ h.v = ghost[p].cbValue
       ELSE /\ frame[p].entry = Entry
            /\ frame[p].err = ghost[p].cbErr
            /\ ~ghost[p].wrote

\* a step of client p inside the first-time-miss branch of asyncLoadOrStore
MissAsyncStep(p) ==
    /\ frame[p].op = "asyncLoadOrStore" /\ ~frame[p].ok
    /\ frame[p].pc \in {"callback", "set_value", "set_time"}
    /\ frame'[p] # frame[p]

\* C18: for a key with no expiry record asyncLoadOrStore and loadOrStore
\* return and store the same, given what the callback returned: one
\* invocation of the callback by the caller, on success {w, Stale = false,
\* Err = nil} with w stored and expiry now + GlobalTTL, on failure the error
\* and the zero Entry with nothing stored; asyncLoadOrStore returns a nil
\* channel, and the steps of its miss branch start no goroutine and leave the
\* semaphore and the channels alone.
C18_AsyncMissAsSync ==
    /\ [](\A p \in Callers :
            (Returned_LoadOrStore(p) \/ Returned_Async(p)) /\ ~frame[p].ok
                => MissResult(p))
    /\ [][\A p \in Callers :
            MissAsyncStep(p) =>
                /\ Started' = Started
                /\ UNCHANGED <<semaphore, errChan>>]_vars

\* asyncLoadOrStore stored the value of its callback for a missing key
C18_Witness ==
    \E p \in Callers :
        /\ Returned_Async(p) /\ ~frame[p].ok /\ ~ghost[p].dirty
        /\ ghost[p].cbErr = Nil
        /\ frame[p].entry.Value \in Values
        /\ LoadAny(mapStorage, frame[p].key) = frame[p].entry.Value
        /\ frame[p].ch = NoChan
\* a c.Set of key k is between its two writes
InSet(k) == \E t \in Threads : frame[t].pc = "set_time" /\ frame[t].key = k

\* no call and no goroutine is running
Quiescent == \A t \in Threads : ~Active(t)

\* C19: in every state in which no c.Set of k is between its two writes, k has
\* an expiry record if and only if it has a value record.
C19_PairedRecords ==
    \A k \in Keys : ~InSet(k) => (Has(timeStorage, k) <=> Has(mapStorage, k))

\* nothing is running, every call has returned and every goroutine has ended,
\* and the key has an expiry record but no value record
C19_Witness ==
    \E k \in Keys : Quiescent /\ Has(timeStorage, k) /\ ~Has(mapStorage, k)
\* a loadOrStore or asyncLoadOrStore by client p has returned a stale Entry
Returned_Stale(p) ==
    (Returned_LoadOrStore(p) \/ Returned_Async(p)) /\ frame[p].entry.Stale

\* C20: whenever loadOrStore or asyncLoadOrStore returns an Entry with Stale =
\* true, its Value is the value the key had when the call found it expired
\* (at now().After(d)), and is not absent.
C20_StaleIsExpiredValue ==
    \A p \in Callers :
        Returned_Stale(p) =>
            /\ frame[p].entry.Value = ghost[p].seen
            /\ frame[p].entry.Value # Nil

\* asyncLoadOrStore returns Stale = true with the value its own goroutine has
\* just stored, which is not expired
C20_Witness ==
    \E p \in Callers :
        LET k == frame[p].key
            h == hist[k] IN
        /\ Returned_Async(p) /\ frame[p].entry.Stale
        /\ frame[p].ch \in Workers
        /\ h.st = "done" /\ h.by = frame[p].ch
        /\ frame[p].entry.Value = h.v
        /\ frame[p].entry.Value # ghost[p].seen
        /\ clock <= Load(timeStorage, k)

\* a stale Entry without a value: the key was deleted after the expiry test
C20_WitnessAbsent ==
    \E p \in Callers : Returned_Stale(p) /\ frame[p].entry.Value = Nil
\* a step of TTL in client p
TTLStep(p) ==
    \/ frame[p].pc = "ttl_now" /\ frame'[p].pc = "ret"
    \/ frame'[p].op = "TTL" /\ frame[p].pc \in {"idle", "ret"}

\* C21: TTL(k) returns the expiry it loaded minus now() when k has an expiry
\* record, which after Set at time t, nothing having written k since, is
\* t + GlobalTTL - now() (negative once expired), and 0 when k has no expiry
\* record; the steps of TTL change neither store.
C21_TTL ==
    /\ [](\A p \in Callers :
            LET k == frame[p].key
                h == hist[k] IN
            Returned_Clean(p, "TTL") =>
                /\ ~ghost[p].wrote
                /\ frame[p].ok <=> Has(timeStorage, k)
                /\ ~frame[p].ok => frame[p].ttl = 0
                /\ frame[p].ok =>
                      /\ frame[p].ttl = Load(timeStorage, k) - clock
                      /\ ghost[p].pre = "Set" =>
                            frame[p].ttl = h.t + config.GlobalTTL - clock)
    /\ [][\A p \in Callers :
            TTLStep(p) => UNCHANGED <<mapStorage, timeStorage, semaphore>>]_vars

\* TTL of a key that expired after Set is negative
C21_Witness ==
    \E p \in Callers :
        /\ Returned_Clean(p, "TTL") /\ frame[p].ok
        /\ ghost[p].pre = "Set"
        /\ frame[p].ttl < 0

\* TTL of a key that has no expiry record
C21_WitnessAbsent ==
    \E p \in Callers :
        Returned_Clean(p, "TTL") /\ ~frame[p].ok /\ frame[p].ttl = 0
\* C22: New accepts every Config: a GlobalTTL <= 0 becomes defaultTTL and a
\* positive one is kept, the semaphore has capacity AsyncSemaphore when that is
\* positive and 1 otherwise, ExtendTTL is kept as given, and neither the
\* configuration nor the capacity of the semaphore ever changes afterwards.
C22_NewNormalises ==
    /\ [](LET i == scope.input IN
            /\ i.GlobalTTL <= 0 => config.GlobalTTL = defaultTTL
            /\ i.GlobalTTL > 0 => config.GlobalTTL = i.GlobalTTL
            /\ config.GlobalTTL > 0
            /\ i.AsyncSemaphore <= 0 => semaphore.cap = 1
            /\ i.AsyncSemaphore > 0 => semaphore.cap = i.AsyncSemaphore
            /\ config.ExtendTTL = i.ExtendTTL
            /\ semaphore.len \in 0..semaphore.cap)
    /\ [][config' = config /\ semaphore'.cap = semaphore.cap]_vars

\* a cache made from a Config with a negative GlobalTTL and a negative
\* AsyncSemaphore serves a key and admits a goroutine
C22_Witness ==
    /\ scope.input.GlobalTTL < 0 /\ scope.input.AsyncSemaphore < 0
    /\ config.GlobalTTL = defaultTTL
    /\ semaphore.len = 1 /\ semaphore.cap = 1
\* every slot of the semaphore is held by a goroutine inside the callback
AllSlotsInRefresh == Cardinality(InRefresh) = semaphore.cap

\* the goroutines that wait at c.semaphore <- true
Waiting == {w \in Workers : frame[w].pc = "acquire"}

\* C23: while every slot of the semaphore is held by a goroutine inside its
\* callback, a goroutine waiting at c.semaphore <- true cannot proceed: it has
\* invoked no callback and sent nothing, and as long as no callback returns
\* it stays where it is with its channel empty; an asyncLoadOrStore that found
\* an expiry record can still take its steps and return.
C23_Starvation ==
    /\ [](AllSlotsInRefresh =>
            /\ \A w \in Waiting :
                  /\ ~ENABLED Acquire(w)
                  /\ ghost[w].calls = 0
                  /\ ghost[w].sent = 0
                  /\ errChan[w] = <<>>
            /\ \A p \in Callers :
                  /\ frame[p].op = "asyncLoadOrStore" /\ frame[p].pc = "now"
                        => ENABLED AsyncLoadOrStore_Now(p)
                  /\ frame[p].op = "asyncLoadOrStore" /\ frame[p].pc = "load_value"
                        => ENABLED LoadValue(p))
    /\ [][AllSlotsInRefresh /\ InRefresh' = InRefresh =>
            \A w \in Waiting :
                /\ frame'[w].pc = "acquire"
                /\ errChan'[w] = <<>>
                /\ ghost'[w].calls = 0]_vars

\* the only slot is held by a goroutine inside the callback, another goroutine
\* waits, and the call that started it returns the stale value
C23_Witness ==
    \E p \in Callers :
        /\ AllSlotsInRefresh
        /\ Returned_Async(p) /\ frame[p].entry.Stale
        /\ frame[p].ch \in Waiting
        /\ frame[p].entry.Value \in Values
\* how far a call of loadOrStore has come
Progress(pc) ==
    CASE pc = "now" -> 1
      [] pc = "callback" -> 2
      [] pc \in {"extend", "set_value"} -> 3
      [] pc \in {"load_value", "set_time"} -> 4
      [] pc = "ret" -> 5
      [] OTHER -> 0

\* the next step of loadOrStore in client p can be taken; at the callback
\* that step is the return of the callback
CanStep(p) ==
    /\ frame[p].pc = "now" => ENABLED LoadOrStore_Now(p)
    /\ frame[p].pc = "callback" =>
          \A r \in SyncCallbackResults : ENABLED LoadOrStore_Callback(p, r)
    /\ frame[p].pc = "extend" => ENABLED UpdateTTL(p)
    /\ frame[p].pc = "load_value" => ENABLED LoadValue(p)
    /\ frame[p].pc = "set_value" => ENABLED SetValue(p)
    /\ frame[p].pc = "set_time" => ENABLED SetTime(p)

\* C24: a running loadOrStore can always take its next step, whatever the
\* semaphore holds and wherever the goroutines are; every step brings it
\* nearer to its return, which it reaches in at most four steps, and no step
\* of it changes the semaphore.
C24_NeverWaits ==
    /\ [](\A p \in Callers :
            frame[p].op = "loadOrStore" /\ Active(p) => CanStep(p))
    /\ [][\A p \in Callers :
            frame[p].op = "loadOrStore" /\ Active(p) /\ frame'[p] # frame[p] =>
                /\ frame'[p].op = "loadOrStore"
                /\ Progress(frame'[p].pc) > Progress(frame[p].pc)
                /\ semaphore' = semaphore]_vars

\* loadOrStore has invoked its callback and returned while the only slot is
\* held by a goroutine inside its callback
C24_Witness ==
    \E p \in Callers :
        /\ AllSlotsInRefresh /\ InRefresh # {}
        /\ Returned_LoadOrStore(p)
        /\ ghost[p].calls = 1

\* goroutine w is between the end of its callback and its send to the channel
AfterRefresh(w) ==
    /\ frame[w].op = "updateCache"
    /\ frame[w].pc \in {"release", "send"}
    /\ ghost[w].calls = 1

\* C25: a goroutine whose callback returned value w with a nil error runs
\* c.Set(k, w): the value store gets w and the expiry store the clock value of
\* the second write plus GlobalTTL, and with no other write to k meanwhile that
\* is what the stores hold when it finishes. A goroutine whose callback
\* returned an error goes to its deferred function and writes the value store
\* in no later step: it never begins a c.Set, and with no other write to k
\* meanwhile the value store holds the value of the last completed c.Set.
C25_RefreshOutcome ==
    /\ [](\A w \in Workers :
            LET k == frame[w].key
                h == hist[k] IN
            /\ AfterRefresh(w) /\ ghost[w].cbErr = Nil /\ ~ghost[w].dirty =>
                  /\ h.st = "done" /\ h.by = w /\ h.op = "updateCache"
                  /\ h.v = ghost[w].cbValue
                  /\ LoadAny(mapStorage, k) = ghost[w].cbValue
                  /\ Load(timeStorage, k) = h.t + config.GlobalTTL
            /\ AfterRefresh(w) /\ ghost[w].cbErr # Nil =>
                  /\ ~(h.by = w /\ h.st \in {"mid", "done"})
                  /\ frame[w].err = ghost[w].cbErr
                  /\ ~ghost[w].dirty /\ h.st \in {"done", "ext"} =>
                        LoadAny(mapStorage, k) = h.v)
    /\ [][\A w \in Workers :
            /\ frame[w].pc = "callback" /\ frame'[w].pc # "callback" =>
                  /\ UNCHANGED <<mapStorage, timeStorage>>
                  /\ \/ /\ ghost'[w].cbErr = Nil
                        /\ frame'[w].pc = "set_value"
                        /\ frame'[w].newValue = ghost'[w].cbValue
                     \/ /\ ghost'[w].cbErr # Nil
                        /\ frame'[w].pc = "release"
            /\ frame[w].op = "updateCache" /\ frame[w].pc = "set_value"
               /\ frame'[w].pc # "set_value" =>
                  /\ LoadAny(mapStorage', frame[w].key) = ghost[w].cbValue
                  /\ frame'[w].pc = "set_time"
            /\ frame[w].op = "updateCache" /\ frame[w].pc = "set_time"
               /\ frame'[w].pc # "set_time" =>
                  /\ Load(timeStorage', frame[w].key) = clock + config.GlobalTTL
                  /\ frame'[w].pc = "release"
            /\ frame[w].pc \in {"release", "send"} /\ frame'[w] # frame[w] =>
                  /\ UNCHANGED <<mapStorage, timeStorage>>
                  /\ frame'[w].pc \in {"send", "done"}]_vars

\* the callback of a goroutine failed, and the value store holds the value of
\* the c.Set that came before
C25_Witness ==
    \E w \in Workers :
        LET k == frame[w].key IN
        /\ AfterRefresh(w) /\ ghost[w].cbErr # Nil /\ ~ghost[w].dirty
        /\ hist[k].st \in {"done", "ext"}
        /\ LoadAny(mapStorage, k) = hist[k].v
        /\ hist[k].v \in Values

\* the callback of a goroutine succeeded with a value other than the one the
\* key had, and its c.Set is complete
C25_WitnessStored ==
    \E w \in Workers :
        /\ AfterRefresh(w) /\ ghost[w].cbErr = Nil /\ ~ghost[w].dirty
        /\ LoadAny(mapStorage, frame[w].key) = ghost[w].cbValue
        /\ ghost[w].cbValue \in Values
        /\ clock > 0

\* goroutine w returned from updateCache because checkIfExpired was false
Skipped(w) ==
    /\ frame[w].op = "updateCache"
    /\ frame[w].pc \in {"release", "send", "done"}
    /\ ghost[w].calls = 0

\* C26: a goroutine whose checkIfExpired reads the clock not after the expiry
\* it loaded goes straight to its deferred function: it does not invoke the
\* callback and writes neither store (no updateTTL), its err is nil, its
\* release of the slot and its send can be taken, the release frees one slot,
\* the send puts nil in its channel, and under fair scheduling it ends with nil
\* in its channel.
C26_FreshRecheckSkips ==
    /\ [](\A w \in Workers :
            Skipped(w) =>
                /\ ~ghost[w].wrote
                /\ ghost[w].cbErr = Nil
                /\ frame[w].err = Nil
                /\ frame[w].pc = "release" => ENABLED Release(w)
                /\ frame[w].pc = "send" => ENABLED Send(w)
                /\ frame[w].pc = "done" => errChan[w] = <<Nil>>)
    /\ [][\A w \in Workers :
            /\ frame[w].pc = "check_now" /\ frame'[w] # frame[w]
               /\ ~After(clock, frame[w].d) =>
                  /\ frame'[w].pc = "release"
                  /\ ghost'[w].calls = 0
                  /\ UNCHANGED <<mapStorage, timeStorage, semaphore, errChan>>
            /\ Skipped(w) /\ frame[w].pc = "release" /\ frame'[w] # frame[w] =>
                  /\ frame'[w].pc = "send"
                  /\ semaphore'.len = semaphore.len - 1
                  /\ UNCHANGED <<mapStorage, timeStorage, errChan>>
            /\ Skipped(w) /\ frame[w].pc = "send" /\ frame'[w] # frame[w] =>
                  /\ frame'[w].pc = "done"
                  /\ errChan'[w] = <<Nil>>
                  /\ UNCHANGED <<mapStorage, timeStorage, semaphore>>]_vars
    /\ \A w \in Workers :
          (Skipped(w) /\ frame[w].pc = "release")
              ~> (Skipped(w) /\ frame[w].pc = "done" /\ errChan[w] = <<Nil>>
                  /\ ~ghost[w].wrote)

\* with ExtendTTL > 0, a goroutine found the key fresh, because a c.Set came
\* between the call that started it and its checkIfExpired, and has ended
C26_Witness ==
    \E w \in Workers :
        /\ config.ExtendTTL > 0
        /\ Skipped(w) /\ frame[w].pc = "done"
        /\ errChan[w] = <<Nil>>
        /\ ~ghost[w].wrote
        /\ Has(timeStorage, frame[w].key)
        /\ clock <= Load(timeStorage, frame[w].key)

\* goroutine w has written the extended expiry of its key and is inside its
\* callback, and nothing has written the key since
ExtendedInFlight(w) ==
    LET h == hist[frame[w].key] IN
    /\ frame[w].op = "updateCache" /\ frame[w].pc = "callback"
    /\ config.ExtendTTL > 0
    /\ h.st = "ext" /\ h.by = w

\* C27: with ExtendTTL = x > 0 a goroutine enters its callback only from
\* updateTTL, which stores the expiry clock + x. An asyncLoadOrStore of the key
\* that loads this expiry and reads the clock not after it, the goroutine
\* still inside its callback, starts no goroutine and returns no channel, the
\* stored value and Stale = false, and its expiry test starts no goroutine.
C27_ExtensionSuppresses ==
    /\ [](\A w \in Workers, p \in Callers :
            LET k == frame[w].key
                h == hist[k] IN
            /\ ExtendedInFlight(w) =>
                  /\ ghost[w].calls = 1
                  /\ Load(timeStorage, k) = h.t + config.ExtendTTL
            /\ ExtendedInFlight(w) /\ Returned_Async(p) /\ frame[p].key = k
               /\ frame[p].ok /\ frame[p].d = h.t + config.ExtendTTL
               /\ ghost[p].now <= frame[p].d =>
                  /\ frame[p].ch = NoChan
                  /\ frame[p].err = Nil
                  /\ frame[p].entry.Stale = FALSE
                  /\ frame[p].entry.Err = Nil
                  /\ ghost[p].calls = 0
                  /\ ~ghost[p].dirty => frame[p].entry.Value = h.v)
    /\ [][/\ \A w \in Workers :
               config.ExtendTTL > 0 /\ frame[w].pc # "callback"
               /\ frame'[w].pc = "callback" =>
                   /\ frame[w].pc = "extend"
                   /\ Load(timeStorage', frame[w].key) = clock + config.ExtendTTL
                   /\ ghost[w].calls = 0 /\ ghost'[w].calls = 1
          /\ \A p \in Callers :
               (/\ frame[p].op = "asyncLoadOrStore" /\ frame[p].pc = "now"
                /\ frame'[p] # frame[p]
                /\ clock <= frame[p].d
                /\ \E w \in Workers :
                      ExtendedInFlight(w) /\ frame[w].key = frame[p].key) =>
                   /\ frame'[p].pc = "load_value"
                   /\ \A u \in Workers : frame'[u] = frame[u]
                   /\ semaphore' = semaphore]_vars

\* asyncLoadOrStore returns no channel at the last instant of the extension a
\* goroutine wrote, the goroutine being inside its callback
C27_Witness ==
    \E w \in Workers, p \in Callers :
        LET h == hist[frame[w].key] IN
        /\ ExtendedInFlight(w)
        /\ Returned_Async(p) /\ frame[p].key = frame[w].key
        /\ frame[p].d = h.t + config.ExtendTTL
        /\ ghost[p].now = frame[p].d
        /\ ghost[p].now > h.t
        /\ frame[p].ch = NoChan
        /\ frame[p].entry.Value \in Values

\* goroutine u has completed the c.Set of the value its callback returned
SetComplete(u) ==
    /\ frame[u].op = "updateCache"
    /\ frame[u].pc \in {"release", "send", "done"}
    /\ ghost[u].calls = 1 /\ ghost[u].cbErr = Nil

\* goroutine w takes the second write of its c.Set
CompletesSet(w) ==
    /\ frame[w].op = "updateCache"
    /\ frame[w].pc = "set_time"
    /\ frame'[w].pc = "release"

\* the last writes of key k are those of the c.Set calls of goroutines w and u
OnlyWriters(k, w, u) ==
    \/ hist[k].st = "mid" /\ hist[k].by = w
    \/ hist[k].st = "done" /\ hist[k].by = u /\ hist[k].op = "updateCache"

\* C28: with a limiter of two or more slots, two goroutines of the same key
\* that are past checkIfExpired have each invoked the callback once; and when
\* one completes its c.Set after the other has completed its own, both
\* callbacks having succeeded and nothing else having written the key between,
\* the value store holds the value of the one that completes last and the
\* expiry store the clock plus GlobalTTL.
C28_LastSetWins ==
    /\ [](\A w \in Workers :
            frame[w].pc \in {"callback", "set_value", "set_time"} =>
                ghost[w].calls = 1)
    /\ [][\A w, u \in Workers :
            /\ w # u /\ semaphore.cap >= 2
            /\ frame[w].key = frame[u].key
            /\ SetComplete(u) /\ CompletesSet(w)
            /\ OnlyWriters(frame[w].key, w, u)
            => /\ LoadAny(mapStorage', frame[w].key) = ghost[w].cbValue
               /\ Load(timeStorage', frame[w].key) = clock + config.GlobalTTL]_vars

\* two goroutines of the same key are inside the callback at once
C28_Witness ==
    \E w, u \in Workers :
        /\ w # u
        /\ semaphore.cap >= 2
        /\ frame[w].key = frame[u].key
        /\ InRefresh = {w, u}
        /\ ghost[w].calls = 1 /\ ghost[u].calls = 1

\* the channel of goroutine w holds the value the goroutine sent
Signalled(w) == errChan[w] # <<>> \/ ghost[w].sent > 0

\* C29: the deferred function of a goroutine receives from c.semaphore before
\* it sends to its channel: the slots taken are those of the goroutines between
\* their acquire and their release, a goroutine whose channel holds its value
\* is not among them, so with every started goroutine's channel filled no slot
\* is taken; the step to the send gives one slot back and the send itself
\* leaves the semaphore as it is.
C29_ReleaseBeforeSignal ==
    /\ [](/\ semaphore.len = Cardinality(Holding)
          /\ \A w \in Workers :
                /\ Signalled(w) => w \notin Holding /\ frame[w].pc = "done"
                /\ frame[w].pc = "send" => ~Signalled(w)
          /\ (\A w \in Workers : frame[w].pc = "idle" \/ Signalled(w)) =>
                semaphore.len = 0)
    /\ [][\A w \in Workers :
            /\ frame[w].pc # "send" /\ frame'[w].pc = "send" =>
                  /\ w \in Holding
                  /\ semaphore'.len = semaphore.len - 1
                  /\ errChan' = errChan
            /\ ~Signalled(w) /\ Signalled(w)' =>
                  /\ frame[w].pc = "send"
                  /\ semaphore' = semaphore]_vars

\* the channel of one goroutine holds its error while another goroutine holds
\* the only slot taken
C29_Witness ==
    \E w, u \in Workers :
        /\ Signalled(w) /\ errChan[w] = <<ghost[w].cbErr>> /\ ghost[w].cbErr # Nil
        /\ Holding = {u}
        /\ semaphore.len = 1
        /\ ghost[u].rank > ghost[w].rank

\* the last write of key k is the updateTTL of a goroutine whose callback then
\* failed
ExtendedThenFailed(k) ==
    LET h == hist[k] IN
    /\ config.ExtendTTL > 0
    /\ h.st = "ext" /\ h.op = "updateCache"
    /\ frame[h.by].pc \in {"release", "send", "done"}
    /\ ghost[h.by].cbErr # Nil

\* C30: with ExtendTTL = x > 0, after a goroutine ran updateTTL at clock t and
\* its callback failed, nothing having written the key since, the value store
\* holds the value of the last c.Set and the expiry store t + x; a loadOrStore
\* or asyncLoadOrStore of the key that returns with the clock not after t + x
\* has loaded that expiry, returns that value with Stale = false, a nil Err, a
\* nil error and no channel, has not invoked the callback and has written
\* neither store.
C30_FailedRefreshStaysFresh ==
    /\ \A k \in Keys :
          ExtendedThenFailed(k) =>
              /\ LoadAny(mapStorage, k) = hist[k].v
              /\ Load(timeStorage, k) = hist[k].t + config.ExtendTTL
    /\ \A p \in Callers :
          LET k == frame[p].key
              h == hist[k] IN
          /\ Returned_LoadOrStore(p) \/ Returned_Async(p)
          /\ ExtendedThenFailed(k)
          /\ ~ghost[p].dirty
          /\ clock <= h.t + config.ExtendTTL
          => /\ frame[p].ok
             /\ frame[p].d = h.t + config.ExtendTTL
             /\ frame[p].entry = [Value |-> h.v, Stale |-> FALSE, Err |-> Nil]
             /\ frame[p].err = Nil
             /\ frame[p].ch = NoChan
             /\ ghost[p].calls = 0
             /\ ~ghost[p].wrote

\* a call returns the old value as fresh at the last instant of the extension
\* of a goroutine whose callback failed and which has ended
C30_Witness ==
    \E p \in Callers :
        LET k == frame[p].key
            h == hist[k] IN
        /\ Returned_LoadOrStore(p) \/ Returned_Async(p)
        /\ ExtendedThenFailed(k)
        /\ frame[h.by].pc = "done"
        /\ ~ghost[p].dirty
        /\ ghost[p].now = h.t + config.ExtendTTL
        /\ ghost[p].now > h.t
        /\ frame[p].entry = [Value |-> h.v, Stale |-> FALSE, Err |-> Nil]
        /\ h.v \in Values

\* loadOrStore returns it
C30_WitnessSync ==
    \E p \in Callers :
        /\ Returned_LoadOrStore(p)
        /\ ExtendedThenFailed(frame[p].key)
        /\ ~ghost[p].dirty
        /\ clock <= hist[frame[p].key].t + config.ExtendTTL
        /\ frame[p].entry.Value \in Values

\* thread t takes its expiry test now().After(d) in this step
TestsExpiry(t) ==
    /\ frame[t].pc \in {"now", "check_now"}
    /\ frame'[t] # frame[t]

\* the branch thread t takes in this step is the one of an expired key:
\* loadOrStore invokes the callback, asyncLoadOrStore starts a goroutine and
\* sets Stale, updateCache goes on to updateTTL or to the callback
TakesExpired(t) ==
    CASE frame[t].op = "loadOrStore" -> frame'[t].pc = "callback"
      [] frame[t].op = "asyncLoadOrStore" ->
            frame'[t].entry.Stale /\ frame'[t].ch \in Workers
      [] OTHER -> frame'[t].pc \in {"extend", "callback"}

\* the branch thread t takes in this step is the one of a fresh key
TakesFresh(t) ==
    CASE frame[t].op = "loadOrStore" -> frame'[t].pc = "load_value"
      [] frame[t].op = "asyncLoadOrStore" ->
            /\ frame'[t].pc = "load_value"
            /\ ~frame'[t].entry.Stale /\ frame'[t].ch = NoChan
      [] OTHER -> frame'[t].pc = "release"

\* C31: the expiry test of loadOrStore, of asyncLoadOrStore and of
\* checkIfExpired takes the expired branch exactly when the clock is strictly
\* greater than the expiry loaded, and the fresh branch otherwise (also at
\* clock = expiry), the same function of clock and expiry in all three; and
\* checkIfExpired without an expiry record takes the expired branch.
C31_ExpiryClassification ==
    [][/\ \A t \in Threads :
            TestsExpiry(t) =>
                /\ TakesExpired(t) <=> clock > frame[t].d
                /\ TakesFresh(t) <=> clock <= frame[t].d
       /\ \A w \in Workers :
            /\ frame[w].pc = "check" /\ frame'[w] # frame[w] =>
                  IF Has(timeStorage, frame[w].key)
                  THEN /\ frame'[w].pc = "check_now"
                       /\ frame'[w].d = Load(timeStorage, frame[w].key)
                  ELSE frame'[w].pc \in {"extend", "callback"}]_vars

\* checkIfExpired has found the key fresh at clock = expiry
C31_Witness ==
    \E w \in Workers :
        /\ Skipped(w) /\ frame[w].pc = "release"
        /\ frame[w].ok /\ frame[w].d = clock
        /\ clock > 0

\* checkIfExpired has found no expiry record
C31_WitnessAbsent ==
    \E w \in Workers :
        /\ frame[w].op = "updateCache" /\ frame[w].pc \in {"extend", "callback"}
        /\ ~frame[w].ok
        /\ ~Has(timeStorage, frame[w].key)

\* the calls of asyncLoadOrStore that hold a channel
HoldsChannel == {p \in Callers : frame[p].op = "asyncLoadOrStore" /\ frame[p].ch # NoChan}

\* C32: an asyncLoadOrStore whose expiry test finds the key expired makes a
\* channel no other call or goroutine has and starts one more goroutine, for
\* its key and that channel, whatever goroutines are already started for the
\* key: the goroutines started grow by exactly that one. Calls that hold a
\* channel at the same time hold different ones, and the send of a goroutine
\* writes its own channel and no other.
C32_NoDeduplication ==
    /\ [](\A p, q \in HoldsChannel :
            /\ frame[p].ch \in Started
            /\ frame[frame[p].ch].key = frame[p].key
            /\ p # q => frame[p].ch # frame[q].ch)
    /\ [][/\ \A p \in Callers :
               /\ frame[p].op = "asyncLoadOrStore" /\ frame[p].pc = "now"
                  /\ frame'[p] # frame[p] /\ clock > frame[p].d =>
                     /\ frame'[p].ch \in Workers \ Started
                     /\ frame'[p].entry.Stale
                     /\ errChan[frame'[p].ch] = <<>>
                     /\ Started' = Started \cup {frame'[p].ch}
                     /\ frame'[frame'[p].ch].pc = "acquire"
                     /\ frame'[frame'[p].ch].key = frame[p].key
          /\ Started' # Started =>
               \E p \in Callers :
                   /\ frame[p].op = "asyncLoadOrStore" /\ frame[p].pc = "now"
                   /\ frame'[p].pc = "load_value" /\ clock > frame[p].d
          /\ \A w \in Workers :
               errChan'[w] # errChan[w] =>
                   /\ frame[w].pc = "send"
                   /\ \A u \in Workers \ {w} : errChan'[u] = errChan[u]]_vars

\* two calls of the same expired key hold different channels, their two
\* goroutines started and none ended
C32_Witness ==
    \E p, q \in HoldsChannel :
        /\ p # q
        /\ frame[p].key = frame[q].key
        /\ frame[p].ch # frame[q].ch
        /\ Started = {frame[p].ch, frame[q].ch}
        /\ \A w \in Started : frame[w].pc # "done"

\* a loadOrStore or asyncLoadOrStore by client p has returned after it loaded
\* an expiry record and read the clock not after it
Returned_Unexpired(p) ==
    /\ Returned_LoadOrStore(p) \/ Returned_Async(p)
    /\ frame[p].ok
    /\ ghost[p].now <= frame[p].d

\* C33: a loadOrStore or asyncLoadOrStore that loads an expiry record, reads
\* the clock not after it and finds no value record invokes the callback: it
\* does not return the absent value with Stale = false and a nil error; and
\* every error a call returns is the one its own callback returned.
C33_MismatchIsMiss ==
    \A p \in Callers :
        /\ Returned_Unexpired(p) /\ frame[p].entry.Value = Nil
           /\ frame[p].err = Nil => ghost[p].calls >= 1
        /\ (Returned_LoadOrStore(p) \/ Returned_Async(p)) /\ frame[p].err # Nil =>
              /\ ghost[p].calls = 1
              /\ frame[p].err = ghost[p].cbErr

\* a call returns the absent value as a fresh hit: the expiry record is there
\* and not expired, the value record is not, and the callback was not invoked
C33_Witness ==
    \E p \in Callers :
        LET k == frame[p].key IN
        /\ Returned_Unexpired(p)
        /\ frame[p].entry = [Value |-> Nil, Stale |-> FALSE, Err |-> Nil]
        /\ frame[p].err = Nil
        /\ ghost[p].calls = 0
        /\ ~ghost[p].dirty
        /\ Has(timeStorage, k) /\ ~Has(mapStorage, k)

\* the goroutines that have given their slot back
Released == {w \in Workers : frame[w].pc \in {"send", "done"}}

\* C34: the slots taken are those of the goroutines between c.semaphore <-
\* true and <-c.semaphore, none when no goroutine is running; the semaphore
\* changes only when a goroutine acquires (one more) or releases (one less);
\* a goroutine that has released never holds a slot again; and under fair
\* scheduling every goroutine that holds a slot releases it, whether
\* checkIfExpired was false, the callback succeeded or the callback failed.
C34_SlotAccounting ==
    /\ [](/\ semaphore.len = Cardinality(Holding)
          /\ semaphore.len <= semaphore.cap
          /\ (\A w \in Workers : frame[w].pc \in {"idle", "done"}) =>
                semaphore.len = 0)
    /\ [][/\ semaphore'.len = semaphore.len + 1 <=>
               \E w \in Workers : frame[w].pc = "acquire" /\ frame'[w].pc = "check"
          /\ semaphore'.len = semaphore.len - 1 <=>
               \E w \in Workers : frame[w].pc = "release" /\ frame'[w].pc = "send"
          /\ semaphore'.len \in {semaphore.len - 1, semaphore.len, semaphore.len + 1}
          /\ \A w \in Released : w \in Released'
          /\ \A w \in Workers :
               w \notin Released /\ w \in Released' => frame[w].pc = "release"]_vars
    /\ \A w \in Workers : (w \in Holding) ~> (w \in Released)

\* two goroutines have ended and no slot is taken: one returned because
\* checkIfExpired was false, the callback of the other succeeded
C34_Witness ==
    \E w, u \in Workers :
        /\ frame[w].pc = "done" /\ frame[u].pc = "done"
        /\ ghost[w].calls = 0
        /\ ghost[u].calls = 1 /\ ghost[u].cbErr = Nil
        /\ semaphore.len = 0

\* a goroutine whose callback failed has ended and no slot is taken
C34_WitnessFailed ==
    \E w \in Workers :
        /\ frame[w].pc = "done"
        /\ ghost[w].calls = 1 /\ ghost[w].cbErr # Nil
        /\ semaphore.len = 0

\* the expiry record of key k is the one a completed c.Set wrote, nothing has
\* written the key since, and the clock is not after it
FreshSet(k) ==
    /\ hist[k].st = "done" /\ hist[k].op # "Delete"
    /\ Load(timeStorage, k) = hist[k].t + config.GlobalTTL
    /\ clock <= Load(timeStorage, k)

\* a c.Set of the key of client p completed at a later clock value than the
\* one at which p found the key expired, and its expiry record is unexpired
FreshSetSince(p) ==
    /\ FreshSet(frame[p].key)
    /\ frame[p].ok
    /\ ghost[p].now > frame[p].d
    /\ hist[frame[p].key].t > ghost[p].now

\* thread t runs updateTTL in this step
Extends(t) == frame[t].pc = "extend" /\ frame'[t].pc # "extend"

\* C35: the updateTTL that loadOrStore runs after a failed callback with
\* useStale never overwrites the expiry record of a c.Set that completed after
\* the call found the key expired: when a c.Set has completed at a later clock
\* value than the call's expiry test and its record is unexpired, the call
\* does not run updateTTL.
C35_ExtensionOnlyWhenExpired ==
    [][\A p \in Callers : Extends(p) => ~FreshSetSince(p)]_vars

\* loadOrStore found the key expired and is about to run updateTTL, and the
\* c.Set of a goroutine whose callback succeeded has completed since, at a
\* later clock value
C35_Witness ==
    \E p \in Callers :
        /\ frame[p].op = "loadOrStore" /\ frame[p].pc = "extend"
        /\ FreshSetSince(p)
        /\ hist[frame[p].key].op = "updateCache"

\* the threads whose call or goroutine has invoked its callback
Invokers == {t \in Threads : ghost[t].calls >= 1}

\* C36: a call of loadOrStore, a call of asyncLoadOrStore and a goroutine each
\* invoke the callback at most once; an asyncLoadOrStore that started a
\* goroutine has not invoked it itself, and one that invoked it started none;
\* the goroutines started and the running or just returned calls that invoked
\* the callback themselves are together at most the calls made, so the
\* invocations are at most the calls; and the count of a thread grows by one
\* at a time.
C36_AtMostOneRefresh ==
    /\ [](/\ \A t \in Threads : ghost[t].calls <= 1
          /\ \A p \in Callers :
                /\ frame[p].op = "asyncLoadOrStore" /\ frame[p].ch # NoChan =>
                      ghost[p].calls = 0
                /\ frame[p].op = "asyncLoadOrStore" /\ ghost[p].calls = 1 =>
                      frame[p].ch = NoChan /\ ~frame[p].ok
                /\ frame[p].op \notin {"loadOrStore", "asyncLoadOrStore"} =>
                      ghost[p].calls = 0
          /\ \A w \in Workers : ghost[w].calls = 1 => w \in Started
          /\ Cardinality(Started) + Cardinality(Invokers \cap Callers) <= nops
          /\ Cardinality(Invokers) <= nops)
    /\ [][\A t \in Threads :
            ghost'[t].calls \in {0, ghost[t].calls, ghost[t].calls + 1}]_vars

\* an asyncLoadOrStore has started a goroutine, the goroutine has invoked the
\* callback and the call has not; a loadOrStore running at the same time has
\* invoked its own
C36_Witness ==
    \E p \in Callers, w \in Workers :
        /\ frame[p].op = "loadOrStore" /\ ghost[p].calls = 1 /\ frame[p].ok
        /\ ghost[w].calls = 1
        /\ Cardinality(Invokers) = 2
        /\ nops >= 2

\* C37: when loadOrStore returns a non-nil error, the Entry is the zero Entry
\* and the error is the one the call's callback returned; when it returns a
\* nil error, Stale is true exactly when Entry.Err is not nil, and Entry.Err is
\* then the error the call's callback returned, with useStale = true.
C37_ReturnShape ==
    \A p \in Callers :
        Returned_LoadOrStore(p) =>
            /\ frame[p].err # Nil =>
                  /\ frame[p].entry = Entry
                  /\ ghost[p].calls = 1
                  /\ frame[p].err = ghost[p].cbErr
            /\ frame[p].err = Nil =>
                  /\ frame[p].entry.Stale <=> frame[p].entry.Err # Nil
                  /\ frame[p].entry.Stale =>
                        /\ ghost[p].calls = 1
                        /\ frame[p].entry.Err = ghost[p].cbErr
                        /\ ghost[p].cbStale

\* loadOrStore returns a stale Entry that carries the error of its callback
C37_Witness ==
    \E p \in Callers :
        /\ Returned_LoadOrStore(p)
        /\ frame[p].err = Nil
        /\ frame[p].entry.Stale
        /\ frame[p].entry.Err \in Errors
        /\ frame[p].entry.Value \in Values

\* loadOrStore returns the error of its callback and the zero Entry, the key
\* being stored and expired
C37_WitnessError ==
    \E p \in Callers :
        /\ Returned_LoadOrStore(p)
        /\ frame[p].err \in Errors
        /\ frame[p].entry = Entry
        /\ frame[p].ok
        /\ Has(mapStorage, frame[p].key)

\* client p takes a step of asyncLoadOrStore
AsyncStep(p) == frame'[p].op = "asyncLoadOrStore" /\ frame'[p] # frame[p]

\* C38: when asyncLoadOrStore returns a nil error, its channel is not nil
\* exactly when Entry.Stale is true, and the channel is then that of a started
\* goroutine of the call's key; the step of the call that makes the channel
\* starts exactly that goroutine, and no other step of the call starts one or
\* changes the channel.
C38_ChannelIffStale ==
    /\ [](\A p \in Callers :
            Returned_Async(p) /\ frame[p].err = Nil =>
                /\ frame[p].ch # NoChan <=> frame[p].entry.Stale
                /\ frame[p].entry.Stale =>
                      /\ frame[p].ch \in Started
                      /\ frame[frame[p].ch].op = "updateCache"
                      /\ frame[frame[p].ch].key = frame[p].key
                      /\ ghost[p].now > frame[p].d
                /\ ~frame[p].entry.Stale =>
                      ~frame[p].ok \/ ghost[p].now <= frame[p].d)
    /\ [][\A p \in Callers :
            AsyncStep(p) =>
                IF frame[p].pc = "now" /\ frame'[p].ch # NoChan
                THEN /\ frame'[p].ch \notin Started
                     /\ Started' = Started \cup {frame'[p].ch}
                     /\ frame'[p].entry.Stale
                ELSE /\ Started' = Started
                     /\ frame[p].pc = "load_value" =>
                           /\ frame'[p].ch = frame[p].ch
                           /\ frame'[p].entry.Stale = frame[p].entry.Stale
                     /\ frame[p].pc # "load_value" => frame'[p].ch = NoChan]_vars

\* asyncLoadOrStore returns a stale Entry and the channel of the one goroutine
\* started, which has not ended
C38_Witness ==
    \E p \in Callers :
        /\ Returned_Async(p) /\ frame[p].err = Nil
        /\ frame[p].entry.Stale
        /\ Started = {frame[p].ch}
        /\ frame[frame[p].ch].pc # "done"
        /\ frame[p].entry.Value \in Values

\* asyncLoadOrStore returns a fresh Entry and no channel, and no goroutine has
\* been started
C38_WitnessFresh ==
    \E p \in Callers :
        /\ Returned_Async(p) /\ frame[p].err = Nil
        /\ ~frame[p].entry.Stale /\ frame[p].ok
        /\ frame[p].ch = NoChan
        /\ Started = {}

\* the calls of loadOrStore inside the callback
InSyncRefresh == {p \in Callers : frame[p].op = "loadOrStore" /\ frame[p].pc = "callback"}

\* the last writes of key k are those of the c.Set of loadOrStore in client p
\* and of the completed c.Set of another loadOrStore
SyncWriters(k, p) ==
    \/ hist[k].st = "mid" /\ hist[k].by = p
    \/ hist[k].st = "done" /\ hist[k].by # p /\ hist[k].op = "loadOrStore"

\* C39: a loadOrStore that finds no expiry record, or reads the clock after
\* the expiry it loaded, invokes the callback, whatever other calls are inside
\* the callback and whatever the semaphore holds, and its steps leave the
\* semaphore as it is; and when its c.Set completes, the last writes of the
\* key being those of loadOrStore calls, the value store holds the value of
\* this c.Set, the last to complete.
C39_SyncNoDeduplication ==
    /\ [](\A p \in Callers :
            /\ frame[p].op = "loadOrStore" /\ frame[p].pc # "now"
               /\ (~frame[p].ok \/ ghost[p].now > frame[p].d) =>
                  ghost[p].calls = 1
            /\ frame[p].op = "loadOrStore" /\ frame[p].pc = "now" =>
                  ENABLED LoadOrStore_Now(p))
    /\ [][\A p \in Callers :
            /\ frame[p].op = "loadOrStore" /\ frame[p].pc = "set_time"
            /\ frame'[p].pc = "ret"
            /\ SyncWriters(frame[p].key, p)
            => /\ LoadAny(mapStorage', frame[p].key) = frame[p].newValue
               /\ semaphore' = semaphore]_vars

\* two calls of loadOrStore of the same key are inside the callback at once,
\* with a limiter of one slot
C39_Witness ==
    \E p, q \in InSyncRefresh :
        /\ p # q
        /\ frame[p].key = frame[q].key
        /\ semaphore.cap = 1
        /\ ghost[p].calls = 1 /\ ghost[q].calls = 1

\* thread t takes this step (a goroutine takes its first when it is started)
Steps(t) == frame'[t] # Live[t]

\* the value record and the expiry record of key k are left as they are
SameRecords(k) ==
    /\ Has(mapStorage', k) <=> Has(mapStorage, k)
    /\ LoadAny(mapStorage', k) = LoadAny(mapStorage, k)
    /\ Has(timeStorage', k) <=> Has(timeStorage, k)
    /\ Load(timeStorage', k) = Load(timeStorage, k)

\* C40: a step of Set, Delete, TTL, loadOrStore, asyncLoadOrStore or of a
\* goroutine, whose key is k, leaves the value record and the expiry record of
\* every other key as they are; a step of TTL changes no record at all; and a
\* goroutine works on the key of the call that started it.
C40_OtherKeysUntouched ==
    /\ [](\A p \in HoldsChannel : frame[frame[p].ch].key = frame[p].key)
    /\ [][\A t \in Threads :
            Steps(t) =>
                /\ frame'[t].key \in scope.keys
                /\ \A k \in Keys \ {frame'[t].key} : SameRecords(k)
                /\ frame'[t].op = "TTL" => \A k \in Keys : SameRecords(k)]_vars

\* both keys are stored with different values, the value of one written by a
\* goroutine and the other the one the client set before
C40_Witness ==
    \E w \in Workers, k \in Keys :
        /\ frame[w].pc = "done" /\ ghost[w].calls = 1 /\ ghost[w].cbErr = Nil
        /\ frame[w].key # k
        /\ hist[frame[w].key].st = "done" /\ hist[frame[w].key].by = w
        /\ hist[k].st = "done" /\ hist[k].op = "Set"
        /\ LoadAny(mapStorage, k) = hist[k].v
        /\ LoadAny(mapStorage, frame[w].key) # LoadAny(mapStorage, k)
        /\ Load(timeStorage, k) = hist[k].t + config.GlobalTTL
====
